---------------------------- MODULE Spec2Model ----------------------------
(***************************************************************************)
(* belowdeck: the Coordinator (internal/coordinator), the overlay state of *)
(* the github module (internal/modules/github) and the device lifecycle    *)
(* manager (cmd/belowdeck), as state machines.                             *)
(*                                                                         *)
(* Time is counted in seconds.  A call of a module method is recorded in   *)
(* the variable calls (the calls made by the most recent step) so that the *)
(* routing properties can speak about who was called.                      *)
(***************************************************************************)
EXTENDS Integers, Sequences, FiniteSets, TLC

\* ------------------------------------------------------------------------
\* Bounds of the model
\* ------------------------------------------------------------------------
\* The IsOverlayActive calls that may be between their two locks at once
MaxExpiring == 2

MaxTime == 9
MaxEnum == 2
MaxReg == 3
MaxFailed == 1
MaxHeld == 1
MaxCoordTime == 6

\* ------------------------------------------------------------------------
\* Program constants
\* ------------------------------------------------------------------------
OverlayDuration == 5
itemsPerPage == 8
Dial4 == 4
WakeRetries == 10

AllKeys == 1..8
AllDials == 1..4

Nil == "nil"

\* The controls on which the model delivers events: a key and a dial of each
\* kind of ownership (see runWithDevice), not all twelve controls.
EventKeys == {1, 3, 4, 7}
EventDials == {1, 3, 4}

\* module.Resources: Keys and Dials are lists, StripRect a rectangle.
\* A rectangle is <<x0, y0, x1, y1>>.
ZeroRect == <<0, 0, 0, 0>>

RectEmpty(r) == r[1] >= r[3] \/ r[2] >= r[4]

\* Resources that never have a strip region.
HasStripNever(res) == FALSE

HasStrip(res) == ~RectEmpty(res.StripRect)

NoResources == [Keys |-> <<>>, StripRect |-> ZeroRect, Dials |-> <<>>]

\* ------------------------------------------------------------------------
\* Variables
\* ------------------------------------------------------------------------
VARIABLES
    now,        \* the clock, in seconds
    gh,         \* the github module: overlayType, overlayExpiry, currentPage,
                \* resources, and the lengths of its two PR lists
    last,       \* the most recent call on the github module and its result
    hist,       \* when the current overlay was activated and last rotated
    expiring,   \* the IsOverlayActive calls that found the overlay expired and
                \* have released the read lock, not yet taken the write lock
    \* -- the device lifecycle manager (cmd/belowdeck) --
    pc,         \* where the main goroutine is
    tryFrom,    \* the call site of the tryGetDeviceWithTimeout in progress
    i,          \* the retry counter of the wake loop
    ctxDone,    \* the top-level context is cancelled
    wakeCh,     \* wake signals buffered in wakeCh (capacity 1)
    wakeAt,     \* when the buffered wake signal arrived: before the device
                \* was acquired and drained, in the delay, in the session
    deviceArrivedCh, \* arrival signals buffered in deviceArrivedCh
    enumInFlight,    \* the single-flight guard
    enum,       \* per tryGetDeviceWithTimeout call still alive: its worker,
                \* its result channel ch and who reads ch
    cur,        \* the call the main goroutine is blocked in (0: none)
    dev,        \* the device handle the main goroutine holds
    coord,      \* Coordinator.Start of the session: none, running, returned
    errChan,    \* runWithDevice's errChan: empty, or what Start returned
    runCancelled,    \* runCancel was called
    stopState,  \* the goroutine calling coord.Stop: none, running, done
    closeState, \* the goroutine calling dev.Close: none, running, done
    cause,      \* the teardown trigger of the session
    lastTry,    \* how the last tryGetDeviceWithTimeout call ended
    lastClosed, \* the handle Close was last called on, and by whom
    \* -- the Coordinator (internal/coordinator) --
    modules,    \* the registered modules, in registration order
    moduleResources, \* the resources stored for each module
    keyOwners,  \* the owner of each key (Nil: none)
    dialOwners, \* the owner of each dial (Nil: none)
    failedModules,   \* the modules whose Init returned an error
    overlayWasActive, \* the last renderKeys was served by an overlay
    cpc,        \* the Coordinator's phase: new, init, running; exited when
                \* the process has ended
    initIdx,    \* the index of the next module of the Init loop
    rpc,        \* the render loop: first (the initial render), keys, strip,
                \* stopped
    initArg,    \* the resources each module's Init was called with (none
                \* before the call)
    initRet,    \* what each module's Init returned: none, ok, err
    granted,    \* per module, the resources of its RegisterModule calls
    keyH,       \* per key, the handler blocked in WaitForRelease
    dialH,      \* per dial, the press handler blocked in WaitForRelease
    step,       \* what the most recent step of the Coordinator handled
    calls,      \* the calls made by the most recent step, in order
    asked,      \* the modules the most recent step asked IsOverlayActive
    hret,       \* what the event handler of the most recent step returned to
                \* the device: nil or err, none if no handler returned
    inits,      \* the modules Init was called on, in call order
    runCtx,     \* the context handed to Start: live, done
    cctx,       \* the context Start derives (c.ctx): none, live, done
    listen,     \* the Listen goroutine of Start: none, running, and what
                \* Listen returned: nil, err
    startRet,   \* what Start returned: none (it has not), nil, err
    spc,        \* Coordinator.Stop: none, cancel, loop, wait, done
    stopIdx,    \* the index of the next module of the Stop loop
    stopBusy,   \* the module Stop calls that have not returned
    run,        \* runWithDevice after Start was launched: select, stop,
                \* close, after; exited when the process has ended
    devState,   \* the device: open, closing (Close was called), closed
    topDone,    \* the top-level context is cancelled
    haOverlay   \* the overlay of the homeassistant module: none (the module
                \* has no overlay capability), off, on

ovVars == <<now, gh, last, hist, expiring>>

mgrVars == <<pc, tryFrom, i, ctxDone, wakeCh, wakeAt, deviceArrivedCh, enumInFlight,
             enum, cur, dev, coord, errChan, runCancelled, stopState,
             closeState, cause, lastTry, lastClosed>>

coordVars == <<modules, moduleResources, keyOwners, dialOwners, failedModules,
               overlayWasActive, cpc, initIdx, rpc, initArg, initRet, granted,
               keyH, dialH, step, calls, asked, hret, inits, runCtx, cctx,
               listen,
               startRet, spc, stopIdx, stopBusy, run, devState, topDone,
               haOverlay>>

\* Coordinator.Stop and the teardown of runWithDevice
teardownVars == <<spc, stopIdx, stopBusy, run, devState, topDone>>

vars == <<ovVars, mgrVars, coordVars>>

\* ------------------------------------------------------------------------
\* github.Module: overlay state
\* ------------------------------------------------------------------------
OverlayTypes == {"OverlayNone", "OverlayMyPRs", "OverlayReviewRequested"}

\* The lengths the PR lists may have (fetched data).
PRListLens == {0, 9}

\* github.New followed by Init(ctx, res)
NewModule(res, nPR, nReview) ==
    [overlayType |-> "OverlayNone", overlayExpiry |-> 0, currentPage |-> 0,
     resources |-> res, prList |-> nPR, reviewPRList |-> nReview]

\* Module.HandleKey: a press selects the overlay and arms the expiry.
HandleKey(m, id, pressed, t) ==
    IF ~pressed THEN m
    ELSE [m EXCEPT
            !.overlayType =
                IF Len(m.resources.Keys) > 1 /\ id = m.resources.Keys[2]
                THEN "OverlayReviewRequested" ELSE "OverlayMyPRs",
            !.overlayExpiry = t + OverlayDuration,
            !.currentPage = 0]

TotalPages(m) ==
    LET n == IF m.overlayType = "OverlayReviewRequested"
             THEN m.reviewPRList ELSE m.prList
        p == (n + itemsPerPage - 1) \div itemsPerPage
    IN IF p = 0 THEN 1 ELSE p

\* A rotation that pages without re-arming the expiry.
RotateExpiryKept(m, t) == m.overlayExpiry

\* The expiry a Dial4 rotation leaves behind.
RotateExpiry(m, t) == t + OverlayDuration

\* A handler in which the release of any dial dismisses the overlay.
HandleOverlayDialAnyDial(m, id, type, delta, t) ==
    IF type = "DialRelease" THEN [m EXCEPT !.overlayType = "OverlayNone"] ELSE m

\* Module.HandleOverlayDial: only Dial4; rotation pages and re-arms the
\* expiry, release dismisses, press does nothing.
HandleOverlayDial(m, id, type, delta, t) ==
    IF id # Dial4 THEN m
    ELSE CASE type = "DialRotate" ->
                [m EXCEPT
                   !.currentPage =
                       IF delta > 0
                       THEN (IF m.currentPage + 1 >= TotalPages(m)
                             THEN TotalPages(m) - 1 ELSE m.currentPage + 1)
                       ELSE IF delta < 0
                       THEN (IF m.currentPage - 1 < 0 THEN 0 ELSE m.currentPage - 1)
                       ELSE m.currentPage,
                   !.overlayExpiry = RotateExpiry(m, t)]
           [] type = "DialRelease" -> [m EXCEPT !.overlayType = "OverlayNone"]
           [] OTHER -> m

\* A key handler that re-arms the expiry as a rotation does.
HandleOverlayKeyExtending(m, id, pressed, t) ==
    IF pressed THEN [m EXCEPT !.overlayExpiry = t + OverlayDuration] ELSE m

\* Module.HandleOverlayKey: opens the PR under the key; the module's state is
\* not written.
HandleOverlayKey(m, id, pressed, t) == m

\* Module.IsOverlayActive: the value returned ...
IsOverlayActive(m, t) ==
    IF m.overlayType = "OverlayNone" THEN FALSE
    ELSE IF t > m.overlayExpiry THEN FALSE
    ELSE TRUE

\* A query that reports the expiry without clearing the state.
AfterIsOverlayActiveNoWrite(m, t) == m

\* ... and the state it leaves behind (the lazy expiry).
AfterIsOverlayActive(m, t) ==
    IF m.overlayType # "OverlayNone" /\ t > m.overlayExpiry
    THEN [m EXCEPT !.overlayType = "OverlayNone"]
    ELSE m

\* ------------------------------------------------------------------------
\* SpecOverlay: the github module called directly, with time passing
\* ------------------------------------------------------------------------
GhResources == [Keys |-> <<3, 4>>, StripRect |-> ZeroRect, Dials |-> <<>>]

Call(op, id, ev, delta, ret) ==
    [op |-> op, id |-> id, ev |-> ev, delta |-> delta, ret |-> ret]

NoHist == [act |-> -1, rot |-> -1]

\* ------------------------------------------------------------------------
\* The Coordinator (internal/coordinator): its modules and its state as
\* coordinator.New leaves it
\* ------------------------------------------------------------------------
\* The modules runWithDevice creates: nowplaying, weather, homeassistant and
\* github.  Only github implements module.OverlayProvider.
Modules == {"np", "w", "ha", "gh"}

OverlayProviders == {"gh"}

Range(s) == {s[n] : n \in 1..Len(s)}

\* The four RegisterModule calls of runWithDevice, in order.
RunRegistrations ==
    << [m |-> "np", res |-> [Keys |-> <<5, 6>>, StripRect |-> <<0, 0, 400, 100>>,
                             Dials |-> <<1, 2>>]],
       [m |-> "w",  res |-> [Keys |-> <<>>, StripRect |-> <<400, 0, 800, 100>>,
                             Dials |-> <<>>]],
       [m |-> "ha", res |-> [Keys |-> <<1, 2>>, StripRect |-> ZeroRect,
                             Dials |-> <<4>>]],
       [m |-> "gh", res |-> GhResources] >>

\* The controls on which the Coordinator model delivers events: a key of
\* homeassistant, a key of github and an unowned key; the unowned dial and
\* Dial4, which homeassistant owns and the github overlay uses.
CoordKeys == {1, 3, 7}
CoordDials == {3, 4}

\* The hold durations WaitForRelease may return.
Durations == {1, 3}

\* What a module method other than github's may return.
Returns == {Nil, "err"}

NoEvent == [Type |-> "none"]

\* module.KeyEvent of the press and of the release sub-event
PressEvent == [Pressed |-> TRUE, Duration |-> 0]

ReleaseEventNoDuration(d) == [Pressed |-> FALSE, Duration |-> 0]

ReleaseEvent(d) == [Pressed |-> FALSE, Duration |-> d]

\* module.DialEvent
DialEvent(type, delta, d) == [Type |-> type, Delta |-> delta, Duration |-> d]

\* One call of a method of module mod (or of the device), as recorded in calls.
CallOf(mod, op, id, ev, ret) ==
    [mod |-> mod, op |-> op, id |-> id, ev |-> ev, ret |-> ret]

\* How a step of the given kind holds c.mu while it works: RegisterModule
\* takes mu.Lock; no other code of the Coordinator touches mu.
muHeld(kind) == IF kind = "RegisterModule" THEN "exclusive" ELSE "none"

\* The steps that read modules, failedModules, the ownership maps or
\* overlayWasActive: the event handlers and the two render steps
ReadingSteps ==
    {"KeyPress", "DialRotate", "DialPress", "Strip", "renderKeys", "renderStrip"}

\* The steps that write them: RegisterModule, the Init loop (failedModules)
\* and renderKeys (overlayWasActive)
MutatingSteps == {"RegisterModule", "Init", "renderKeys"}

\* What the most recent step was: the event or loop step handled, the control,
\* the overlay getActiveOverlay returned (Nil if none or not asked), and how
\* c.mu was held.
StepOf(kind, id, overlay) ==
    [kind |-> kind, id |-> id, overlay |-> overlay, lock |-> muHeld(kind)]

\* A handler that is not running / that waits for the release, having
\* delivered the press to the owner or to the overlay mod.
NoHandler == [to |-> "none", mod |-> Nil]

Handler(to, mod) == [to |-> to, mod |-> mod]

\* coordinator.New
CoordNew ==
    /\ modules = <<>>
    /\ moduleResources = [m \in Modules |-> NoResources]
    /\ keyOwners = [k \in AllKeys |-> Nil]
    /\ dialOwners = [d \in AllDials |-> Nil]
    /\ failedModules = {}
    /\ overlayWasActive = FALSE
    /\ cpc = "new" /\ initIdx = 0 /\ rpc = "none"
    /\ initArg = [m \in Modules |-> NoResources]
    /\ initRet = [m \in Modules |-> "none"]
    /\ granted = [m \in Modules |-> <<>>]
    /\ keyH = [k \in CoordKeys |-> NoHandler]
    /\ dialH = [d \in CoordDials |-> NoHandler]
    /\ step = StepOf("New", 0, Nil)
    /\ calls = <<>>
    /\ asked = <<>> /\ hret = "none" /\ inits = <<>>
    /\ runCtx = "live" /\ cctx = "none" /\ listen = "none" /\ startRet = "none"
    /\ spc = "none" /\ stopIdx = 0 /\ stopBusy = 0
    /\ run = "select" /\ devState = "open" /\ topDone = FALSE
    /\ haOverlay = "none"

\* The manager before main runs.
FreeSlot == [worker |-> "free", ch |-> "empty", reader |-> "caller"]

MgrIdle ==
    /\ pc = "wfd_first" /\ tryFrom = "first" /\ i = 0
    /\ ctxDone = FALSE /\ wakeCh = 0 /\ wakeAt = "none" /\ deviceArrivedCh = 0
    /\ enumInFlight = FALSE
    /\ enum = [k \in 1..MaxEnum |-> FreeSlot]
    /\ cur = 0 /\ dev = Nil
    /\ coord = "none" /\ errChan = "empty" /\ runCancelled = FALSE
    /\ stopState = "none" /\ closeState = "none"
    /\ cause = "none" /\ lastTry = "none" /\ lastClosed = <<"none", "none">>

OvIdle ==
    /\ now = 0
    /\ gh = NewModule(GhResources, 0, 0)
    /\ last = Call("Init", 0, "", 0, Nil)
    /\ hist = NoHist /\ expiring = 0

InitOverlay ==
    /\ now = 0
    /\ \E a \in PRListLens, b \in PRListLens : gh = NewModule(GhResources, a, b)
    /\ last = Call("Init", 0, "", 0, Nil)
    /\ hist = NoHist /\ expiring = 0
    /\ MgrIdle
    /\ CoordNew

Tick ==
    /\ now < MaxTime
    /\ now' = now + 1
    /\ last' = Call("Tick", 0, "", 0, Nil)
    /\ UNCHANGED <<gh, hist, expiring, mgrVars, coordVars>>

OvHandleKey ==
    \E id \in {3, 4}, pressed \in BOOLEAN :
        /\ gh' = HandleKey(gh, id, pressed, now)
        /\ last' = Call("HandleKey", id, IF pressed THEN "Press" ELSE "Release", 0, Nil)
        /\ hist' = IF pressed THEN [act |-> now, rot |-> -1] ELSE hist
        /\ UNCHANGED <<now, expiring, mgrVars, coordVars>>

OvHandleOverlayDial ==
    \E id \in EventDials, type \in {"DialRotate", "DialPress", "DialRelease"},
       delta \in {-1, 0, 1} :
        /\ type # "DialRotate" => delta = 0
        /\ gh' = HandleOverlayDial(gh, id, type, delta, now)
        /\ last' = Call("HandleOverlayDial", id, type, delta, Nil)
        /\ hist' = IF id = Dial4 /\ type = "DialRelease" THEN NoHist
                   ELSE IF id = Dial4 /\ type = "DialRotate" /\ hist.act >= 0
                             /\ gh.overlayType # "OverlayNone"
                   THEN [hist EXCEPT !.rot = now]
                   ELSE hist
        /\ UNCHANGED <<now, expiring, mgrVars, coordVars>>

OvHandleOverlayKey ==
    \E id \in EventKeys, pressed \in BOOLEAN :
        /\ gh' = HandleOverlayKey(gh, id, pressed, now)
        /\ last' = Call("HandleOverlayKey", id, IF pressed THEN "Press" ELSE "Release", 0, Nil)
        /\ UNCHANGED <<now, hist, expiring, mgrVars, coordVars>>

OvIsOverlayActive ==
    /\ gh' = AfterIsOverlayActive(gh, now)
    /\ last' = Call("IsOverlayActive", 0, "", 0, IsOverlayActive(gh, now))
    /\ UNCHANGED <<now, hist, expiring, mgrVars, coordVars>>

NextOverlay ==
    \/ Tick
    \/ OvHandleKey
    \/ OvHandleOverlayDial
    \/ OvHandleOverlayKey
    \/ OvIsOverlayActive

SpecOverlay == InitOverlay /\ [][NextOverlay]_vars

\* ------------------------------------------------------------------------
\* SpecExpiry: IsOverlayActive called from several goroutines (the render
\* loop, the event handlers) while HandleKey and HandleOverlayDial run
\* ------------------------------------------------------------------------
\* Module.IsOverlayActive under the read lock: it returns false or true, or
\* finds the overlay expired and releases the read lock to take the write
\* lock.
IsOverlayActive_Check ==
    /\ IF gh.overlayType # "OverlayNone" /\ now > gh.overlayExpiry
       THEN /\ expiring < MaxExpiring
            /\ expiring' = expiring + 1
            /\ last' = Call("IsOverlayActive", 0, "RUnlock", 0, Nil)
       ELSE /\ expiring' = expiring
            /\ last' = Call("IsOverlayActive", 0, "", 0, IsOverlayActive(gh, now))
    /\ UNCHANGED <<now, gh, hist, mgrVars, coordVars>>

\* Module.IsOverlayActive with the write lock: `m.overlayType = OverlayNone`,
\* whatever the state is by now, and false is returned.
IsOverlayActive_Expire ==
    /\ expiring > 0
    /\ expiring' = expiring - 1
    /\ gh' = [gh EXCEPT !.overlayType = "OverlayNone"]
    /\ last' = Call("IsOverlayActive", 0, "Lock", 0, FALSE)
    /\ UNCHANGED <<now, hist, mgrVars, coordVars>>

NextExpiry ==
    \/ Tick
    \/ OvHandleKey
    \/ OvHandleOverlayDial
    \/ IsOverlayActive_Check
    \/ IsOverlayActive_Expire

SpecExpiry == InitOverlay /\ [][NextExpiry]_vars

\* ------------------------------------------------------------------------
\* The device lifecycle manager: main, waitForHardwareDevice,
\* tryGetDeviceWithTimeout and runWithDevice (cmd/belowdeck)
\* ------------------------------------------------------------------------
\* The enumeration workers that have not yet returned from GetDevice/Open.
WorkersRunning == {k \in 1..MaxEnum : enum[k].worker = "running"}

\* A slot of enum can be taken by a new call.
Free(k) == enum[k] = FreeSlot /\ k # cur

\* A guard that lets every call through.
EnumBusyNever == FALSE

\* enumInFlight.CompareAndSwap(false, true) fails.
EnumBusy == enumInFlight

\* A manager that gives up when a probe returned nil.
AfterNilExits(from) == "exited"

\* Where waitForHardwareDevice goes on when a probe returned nil.
AfterNil(from) == IF from = "wake" THEN "wfd_wake_sleep" ELSE "wfd_select"

CallSites == {"wfd_first", "wfd_wake", "wfd_probe"}

SiteOf(p) == CASE p = "wfd_first" -> "first"
               [] p = "wfd_wake" -> "wake"
               [] OTHER -> "probe"

sessVars == <<coord, errChan, runCancelled, stopState, closeState, cause>>

\* tryGetDeviceWithTimeout up to its select: the guard, and the worker.
TryGet_Call ==
    /\ pc \in CallSites
    /\ IF EnumBusy
       THEN /\ pc' = AfterNil(SiteOf(pc))
            /\ lastTry' = "busy"
            /\ UNCHANGED <<enumInFlight, enum, cur, tryFrom>>
       ELSE \E k \in 1..MaxEnum :
            /\ Free(k)
            /\ \A j \in 1..(k - 1) : ~Free(j)
            /\ enumInFlight' = TRUE
            /\ enum' = [enum EXCEPT ![k] =
                           [worker |-> "running", ch |-> "empty", reader |-> "caller"]]
            /\ cur' = k
            /\ tryFrom' = SiteOf(pc)
            /\ pc' = "try_wait"
            /\ UNCHANGED lastTry
    /\ UNCHANGED <<i, ctxDone, wakeCh, wakeAt, deviceArrivedCh, dev, lastClosed, sessVars, ovVars, coordVars>>

\* The worker goroutine: GetDevice and Open return, the result is sent on
\* the buffered ch, and the deferred Store(false) clears the guard.
Worker_Return ==
    \E k \in 1..MaxEnum, ok \in BOOLEAN :
        /\ pc # "exited"
        /\ enum[k].worker = "running"
        /\ enum' = [enum EXCEPT ![k].worker = "returned",
                                ![k].ch = IF ~ok THEN "err"
                                          ELSE IF enum[k].reader = "cleanup"
                                          THEN "latedev" ELSE "dev"]
        /\ enumInFlight' = FALSE
        /\ UNCHANGED <<pc, tryFrom, i, ctxDone, wakeCh, wakeAt, deviceArrivedCh, cur, dev,
                       lastTry, lastClosed, sessVars, ovVars, coordVars>>

\* select: case r := <-ch
TryGet_Receive ==
    /\ pc = "try_wait"
    /\ enum[cur].ch # "empty"
    /\ enum' = [enum EXCEPT ![cur] = FreeSlot]
    /\ cur' = 0
    /\ tryFrom' = "first"
    /\ IF enum[cur].ch = "err"
       THEN /\ pc' = AfterNil(tryFrom)
            /\ lastTry' = "err"
            /\ dev' = Nil
            /\ i' = i
       ELSE /\ pc' = "main_check"
            /\ lastTry' = "dev"
            /\ dev' = enum[cur].ch
            /\ i' = 0
    /\ UNCHANGED <<ctxDone, wakeCh, wakeAt, deviceArrivedCh, enumInFlight,
                   lastClosed, sessVars, ovVars, coordVars>>

\* select: case <-time.After(timeout); the channel is left to the cleanup
\* goroutine and the caller gets nil.
TryGet_Timeout ==
    /\ pc = "try_wait"
    /\ enum' = [enum EXCEPT ![cur].reader = "cleanup"]
    /\ cur' = 0
    /\ pc' = AfterNil(tryFrom)
    /\ tryFrom' = "first"
    /\ lastTry' = "timeout"
    /\ UNCHANGED <<i, ctxDone, wakeCh, wakeAt, deviceArrivedCh, enumInFlight, dev,
                   lastClosed, sessVars, ovVars, coordVars>>

\* A cleanup goroutine that drops the late result without closing it.
CleanupDrops(r) == lastClosed

\* What the cleanup goroutine does with the result r it received.
CleanupCloses(r) == IF r \in {"dev", "latedev"} THEN <<r, "cleanup">> ELSE lastClosed

\* The cleanup goroutine of a timed-out call: r := <-ch, Close if a device.
Cleanup(k) ==
    /\ pc # "exited"
    /\ enum[k].reader = "cleanup"
    /\ enum[k].ch # "empty"
    /\ enum' = [enum EXCEPT ![k] = FreeSlot]
    /\ lastClosed' = CleanupCloses(enum[k].ch)
    /\ UNCHANGED <<pc, tryFrom, i, ctxDone, wakeCh, wakeAt, deviceArrivedCh, enumInFlight,
                   cur, dev, lastTry, sessVars, ovVars, coordVars>>

Cleanup_Receive == \E k \in 1..MaxEnum : Cleanup(k)

\* waitForHardwareDevice: the select of the wait loop.
Wait_Ctx ==
    /\ lastTry' = "none"
    /\ pc = "wfd_select"
    /\ ctxDone
    /\ pc' = "exited"
    /\ i' = 0
    /\ UNCHANGED <<tryFrom, ctxDone, wakeCh, wakeAt, deviceArrivedCh, enumInFlight, enum,
                   cur, dev, lastClosed, sessVars, ovVars, coordVars>>

Wait_Arrived ==
    /\ lastTry' = "none"
    /\ pc = "wfd_select"
    /\ deviceArrivedCh > 0
    /\ deviceArrivedCh' = deviceArrivedCh - 1
    /\ pc' = "wfd_probe"
    /\ UNCHANGED <<tryFrom, i, ctxDone, wakeCh, wakeAt, enumInFlight, enum,
                   cur, dev, lastClosed, sessVars, ovVars, coordVars>>

Wait_Wake ==
    /\ lastTry' = "none"
    /\ pc = "wfd_select"
    /\ wakeCh > 0
    /\ wakeCh' = wakeCh - 1
    /\ wakeAt' = "none"
    /\ i' = 0
    /\ pc' = "wfd_wake"
    /\ UNCHANGED <<tryFrom, ctxDone, deviceArrivedCh, enumInFlight, enum,
                   cur, dev, lastClosed, sessVars, ovVars, coordVars>>

\* A wake loop that never gives up.
MoreRetriesAlways(n) == TRUE

\* The loop condition after the i++ of the wake loop.
MoreRetries(n) == n + 1 < WakeRetries

\* The wake loop between two attempts: select on ctx.Done and the 500ms.
WakeSleep_Ctx ==
    /\ lastTry' = "none"
    /\ pc = "wfd_wake_sleep"
    /\ ctxDone
    /\ pc' = "exited"
    /\ i' = 0
    /\ UNCHANGED <<tryFrom, ctxDone, wakeCh, wakeAt, deviceArrivedCh, enumInFlight, enum,
                   cur, dev, lastClosed, sessVars, ovVars, coordVars>>

WakeSleep_After ==
    /\ lastTry' = "none"
    /\ pc = "wfd_wake_sleep"
    /\ i' = IF MoreRetries(i) THEN i + 1 ELSE 0
    /\ pc' = IF MoreRetries(i) THEN "wfd_wake" ELSE "wfd_select"
    /\ UNCHANGED <<tryFrom, ctxDone, wakeCh, wakeAt, deviceArrivedCh, enumInFlight, enum,
                   cur, dev, lastClosed, sessVars, ovVars, coordVars>>

\* A main that starts the session without looking at the context.
Main_CheckNoCtx ==
    /\ lastTry' = "none"
    /\ pc = "main_check"
    /\ pc' = "main_drain"
    /\ UNCHANGED <<tryFrom, i, ctxDone, wakeCh, wakeAt, deviceArrivedCh, enumInFlight, enum,
                   cur, dev, lastClosed, sessVars, ovVars, coordVars>>

\* main: the context check after a device was acquired.
Main_Check ==
    /\ lastTry' = "none"
    /\ pc = "main_check"
    /\ IF ctxDone
       THEN /\ pc' = "exited"
            /\ lastClosed' = <<dev, "main">>
            /\ dev' = Nil
       ELSE /\ pc' = "main_drain"
            /\ UNCHANGED <<lastClosed, dev>>
    /\ UNCHANGED <<tryFrom, i, ctxDone, wakeCh, wakeAt, deviceArrivedCh, enumInFlight, enum,
                   cur, sessVars, ovVars, coordVars>>

\* main: drainWake empties wakeCh.
Main_Drain ==
    /\ pc = "main_drain"
    /\ wakeCh' = 0
    /\ wakeAt' = "none"
    /\ pc' = "main_sleep"
    /\ UNCHANGED <<tryFrom, i, ctxDone, deviceArrivedCh, enumInFlight, enum,
                   cur, dev, lastTry, lastClosed, sessVars, ovVars, coordVars>>

\* main: the stabilization sleep is over; runWithDevice builds the
\* Coordinator and starts coord.Start(runCtx) in a goroutine.
Run_Start ==
    /\ pc = "main_sleep"
    /\ coord' = "running"
    /\ errChan' = "empty"
    /\ runCancelled' = FALSE
    /\ stopState' = "none"
    /\ closeState' = "none"
    /\ cause' = "none"
    /\ pc' = "run_select"
    /\ UNCHANGED <<tryFrom, i, ctxDone, wakeCh, wakeAt, deviceArrivedCh, enumInFlight, enum,
                   cur, dev, lastTry, lastClosed, ovVars, coordVars>>

\* Coordinator.Start returns: Listen returned (with an error, or nil and the
\* closed listenErr yields nil), or its context was cancelled.
Start_Return ==
    \E r \in {"nil", "err"} :
        /\ pc # "exited"
        /\ coord = "running"
        /\ (runCancelled \/ ctxDone) => r = "nil"
        /\ coord' = "returned"
        /\ errChan' = r
        /\ UNCHANGED <<pc, tryFrom, i, ctxDone, wakeCh, wakeAt, deviceArrivedCh, enumInFlight,
                       enum, cur, dev, lastTry, lastClosed, runCancelled, stopState,
                       closeState, cause, ovVars, coordVars>>

\* A session that does not listen to wakeCh.
SelectCasesNoWake == {"ctx", "err"}

\* The cases of the select of runWithDevice.
SelectCases == {"ctx", "err", "wake"}

\* runWithDevice: the select on ctx.Done, errChan and wakeCh, then runCancel
\* and the goroutine calling coord.Stop.
Run_Select ==
    \E c \in SelectCases :
        /\ pc = "run_select"
        /\ c = "ctx" => ctxDone
        /\ c = "err" => errChan # "empty"
        /\ c = "wake" => wakeCh > 0
        /\ cause' = IF c = "err" THEN errChan ELSE c
        /\ errChan' = IF c = "err" THEN "empty" ELSE errChan
        /\ wakeCh' = IF c = "wake" THEN wakeCh - 1 ELSE wakeCh
        /\ wakeAt' = IF c = "wake" THEN "none" ELSE wakeAt
        /\ runCancelled' = TRUE
        /\ stopState' = "running"
        /\ pc' = "run_stop"
        /\ UNCHANGED <<tryFrom, i, ctxDone, deviceArrivedCh, enumInFlight, enum, cur,
                       dev, lastTry, lastClosed, coord, closeState, ovVars, coordVars>>

\* coord.Stop returns (it may also never do so).
Stop_Return ==
    /\ pc # "exited"
    /\ stopState = "running"
    /\ stopState' = "done"
    /\ UNCHANGED <<pc, tryFrom, i, ctxDone, wakeCh, wakeAt, deviceArrivedCh, enumInFlight, enum,
                   cur, dev, lastTry, lastClosed, coord, errChan, runCancelled,
                   closeState, cause, ovVars, coordVars>>

\* A teardown that waits for coord.Stop without a timeout.
StopWaitNoTimeout == {FALSE}

\* The select on done and time.After(2s): whether the timeout is taken.
StopWait == BOOLEAN

\* runWithDevice: select on done and the 2s timeout.
Run_Stopped ==
    \E timeout \in StopWait :
        /\ pc = "run_stop"
        /\ ~timeout => stopState = "done"
        /\ pc' = "run_delay"
        /\ UNCHANGED <<tryFrom, i, ctxDone, wakeCh, wakeAt, deviceArrivedCh, enumInFlight, enum,
                       cur, dev, lastTry, lastClosed, sessVars, ovVars, coordVars>>

\* A teardown that calls dev.Close without waiting for coord.Stop or for the
\* delay.
Run_CloseEarly ==
    /\ pc = "run_stop"
    /\ closeState' = "running"
    /\ lastClosed' = <<dev, "runWithDevice">>
    /\ pc' = "run_close"
    /\ UNCHANGED <<tryFrom, i, ctxDone, wakeCh, wakeAt, deviceArrivedCh, enumInFlight, enum,
                   cur, dev, lastTry, coord, errChan, runCancelled, stopState,
                   cause, ovVars, coordVars>>

\* runWithDevice: the 200ms delay is over; the goroutine calling dev.Close.
Run_Close ==
    /\ pc = "run_delay"
    /\ closeState' = "running"
    /\ lastClosed' = <<dev, "runWithDevice">>
    /\ pc' = "run_close"
    /\ UNCHANGED <<tryFrom, i, ctxDone, wakeCh, wakeAt, deviceArrivedCh, enumInFlight, enum,
                   cur, dev, lastTry, coord, errChan, runCancelled, stopState,
                   cause, ovVars, coordVars>>

\* dev.Close returns (it may also never do so).
Close_Return ==
    /\ pc # "exited"
    /\ closeState = "running"
    /\ closeState' = "done"
    /\ UNCHANGED <<pc, tryFrom, i, ctxDone, wakeCh, wakeAt, deviceArrivedCh, enumInFlight, enum,
                   cur, dev, lastTry, lastClosed, coord, errChan, runCancelled,
                   stopState, cause, ovVars, coordVars>>

\* A teardown that waits for dev.Close whatever happens.
CloseCasesOnlyClosed == {"closed"}

\* The cases of the last select of runWithDevice.
CloseCases == {"ctx", "closed", "timeout"}

\* runWithDevice: select on ctx.Done (os.Exit), closeDone and the 3s timeout.
\* os.Exit ends the process as it is; a return ends the session.
Run_Closed ==
    \E c \in CloseCases :
        /\ pc = "run_close"
        /\ c = "ctx" => ctxDone
        /\ c = "closed" => closeState = "done"
        /\ pc' = IF c = "ctx" THEN "exited" ELSE "main_after"
        /\ dev' = Nil
        /\ IF c = "ctx"
           THEN UNCHANGED <<coord, errChan, runCancelled, stopState, closeState>>
           ELSE /\ coord' = "none" /\ errChan' = "empty" /\ runCancelled' = FALSE
                /\ stopState' = "none" /\ closeState' = "none"
        /\ UNCHANGED <<tryFrom, i, ctxDone, wakeCh, wakeAt, deviceArrivedCh, enumInFlight, enum,
                       cur, lastTry, lastClosed, cause, ovVars, coordVars>>

\* main: after runWithDevice, exit on cancellation or loop.
Main_After ==
    /\ pc = "main_after"
    /\ pc' = IF ctxDone THEN "exited" ELSE "wfd_first"
    /\ lastClosed' = <<"none", "none">>
    /\ UNCHANGED <<tryFrom, i, ctxDone, wakeCh, wakeAt, deviceArrivedCh, enumInFlight, enum,
                   cur, dev, lastTry, sessVars, ovVars, coordVars>>

\* The signal goroutine: cancel().
Cancel ==
    /\ ~ctxDone
    /\ pc # "exited"
    /\ ctxDone' = TRUE
    /\ UNCHANGED <<pc, tryFrom, i, wakeCh, wakeAt, deviceArrivedCh, enumInFlight, enum,
                   cur, dev, lastTry, lastClosed, sessVars, ovVars, coordVars>>

\* Where main is when a wake signal arrives: before the drain of wakeCh, in
\* the stabilization delay after it, or in runWithDevice.
Phase ==
    IF pc = "main_sleep" THEN "delay"
    ELSE IF pc \in {"run_select", "run_stop", "run_delay", "run_close", "main_after"}
    THEN "session"
    ELSE "before"

\* A send on a channel that holds any number of signals.
TrySendUnbounded(n) == n + 1

\* `select { case wakeCh <- struct{}{}: default: }` on a channel of capacity
\* 1 that holds n signals: the signal is dropped when the buffer is full.
TrySend(n) == IF n < 1 THEN n + 1 ELSE n

\* The sleep notifier goroutine: a non-blocking send on wakeCh.
Wake ==
    /\ pc # "exited"
    /\ wakeCh' = TrySend(wakeCh)
    /\ wakeAt' = IF wakeCh < 1 THEN Phase ELSE wakeAt
    /\ UNCHANGED <<pc, tryFrom, i, ctxDone, deviceArrivedCh, enumInFlight, enum,
                   cur, dev, lastTry, lastClosed, sessVars, ovVars, coordVars>>

\* usbwatch: an arrival signal on deviceArrivedCh.
DeviceArrived ==
    /\ pc # "exited"
    /\ deviceArrivedCh' = IF deviceArrivedCh < 1 THEN deviceArrivedCh + 1
                          ELSE deviceArrivedCh
    /\ UNCHANGED <<pc, tryFrom, i, ctxDone, wakeCh, wakeAt, enumInFlight, enum,
                   cur, dev, lastTry, lastClosed, sessVars, ovVars, coordVars>>

\* The steps of the main goroutine.
MainStep ==
    \/ TryGet_Call
    \/ TryGet_Receive
    \/ TryGet_Timeout
    \/ Wait_Ctx
    \/ Wait_Arrived
    \/ Wait_Wake
    \/ WakeSleep_Ctx
    \/ WakeSleep_After
    \/ Main_Check
    \/ Main_Drain
    \/ Run_Start
    \/ Run_Select
    \/ Run_Stopped
    \/ Run_Close
    \/ Run_Closed
    \/ Main_After

NextManager ==
    \/ MainStep
    \/ Worker_Return
    \/ Cleanup_Receive
    \/ Start_Return
    \/ Stop_Return
    \/ Close_Return
    \/ Cancel
    \/ Wake
    \/ DeviceArrived

InitManager == MgrIdle /\ OvIdle /\ CoordNew

SpecManager == InitManager /\ [][NextManager]_vars

\* The main goroutine keeps running (its timers fire) and each cleanup
\* goroutine whose channel holds a result receives it.
SpecManagerFair ==
    /\ SpecManager
    /\ WF_vars(MainStep)
    /\ \A k \in 1..MaxEnum : WF_vars(Cleanup(k))

\* ------------------------------------------------------------------------
\* The Coordinator: RegisterModule, Start, the event handlers and the
\* render loop
\* ------------------------------------------------------------------------
\* A registration that leaves an owned key or dial to its owner.
SetOwnerIfFree(old, m) == IF old = Nil THEN m ELSE old

\* `c.keyOwners[key] = m`, `c.dialOwners[dial] = m`
SetOwner(old, m) == m

\* Coordinator.RegisterModule
RegisterModule(m, res) ==
    /\ cpc = "new"
    /\ moduleResources' = [moduleResources EXCEPT ![m] = res]
    /\ keyOwners' = [k \in AllKeys |->
                        IF k \in Range(res.Keys) THEN SetOwner(keyOwners[k], m)
                        ELSE keyOwners[k]]
    /\ dialOwners' = [d \in AllDials |->
                        IF d \in Range(res.Dials) THEN SetOwner(dialOwners[d], m)
                        ELSE dialOwners[d]]
    /\ modules' = Append(modules, m)
    /\ granted' = [granted EXCEPT ![m] = Append(@, res)]
    /\ step' = StepOf("RegisterModule", Len(modules) + 1, Nil)
    /\ calls' = <<>>
    /\ UNCHANGED <<failedModules, overlayWasActive, cpc, initIdx, rpc, initArg,
                   initRet, keyH, dialH, asked, hret, inits, runCtx, cctx, listen,
                   startRet, teardownVars, haOverlay, ovVars, mgrVars>>

\* runWithDevice registers its four modules ...
Session_Register ==
    /\ Len(modules) < Len(RunRegistrations)
    /\ RegisterModule(RunRegistrations[Len(modules) + 1].m,
                      RunRegistrations[Len(modules) + 1].res)

\* ... while a caller of the package may register any module with any grant.
Any_Register ==
    /\ Len(modules) < MaxReg
    /\ \E m \in Modules, n \in 1..Len(RunRegistrations) :
          RegisterModule(m, RunRegistrations[n].res)

\* An Init that stores nothing.
resourcesForModuleEmpty(m) == NoResources

\* Coordinator.resourcesForModule
resourcesForModule(m) == moduleResources[m]

\* Coordinator.Start, up to the Init loop
Start ==
    /\ cpc = "new"
    /\ cpc' = "init" /\ initIdx' = 1
    /\ cctx' = runCtx
    /\ step' = StepOf("Start", 0, Nil)
    /\ calls' = <<>>
    /\ UNCHANGED <<modules, moduleResources, keyOwners, dialOwners,
                   failedModules, overlayWasActive, rpc, initArg, initRet,
                   granted, keyH, dialH, asked, hret, inits, runCtx, listen,
                   startRet, teardownVars, haOverlay, ovVars, mgrVars>>

\* runWithDevice starts the Coordinator after its registrations.
Session_Start == Len(modules) = Len(RunRegistrations) /\ Start

\* The fetched PR lists of the github module in the Coordinator model.
GhInit(res) == NewModule(res, 9, 0)

\* An Init loop that ends at the first error.
NextInitFailFast(n, ret) == IF ret = Nil THEN n + 1 ELSE Len(modules) + 1

\* The Init loop of Start goes on to the next module whatever Init returned.
NextInit(n, ret) == n + 1

\* One iteration of the Init loop of Start: Init of the next module with its
\* stored resources; a module whose Init fails is marked failed.
Start_Init ==
    /\ cpc = "init" /\ initIdx <= Len(modules)
    /\ LET m == modules[initIdx]
           res == resourcesForModule(m)
       IN \E ret \in Returns :
            /\ initArg' = [initArg EXCEPT ![m] = res]
            /\ initRet' = [initRet EXCEPT ![m] = IF ret = Nil THEN "ok" ELSE "err"]
            /\ failedModules' = IF ret # Nil THEN failedModules \cup {m}
                                ELSE failedModules
            /\ Cardinality(failedModules') <= MaxFailed
            /\ gh' = IF m = "gh" THEN GhInit(res) ELSE gh
            /\ calls' = <<CallOf(m, "Init", 0, NoEvent, ret)>>
            /\ step' = StepOf("Init", initIdx, Nil)
            /\ inits' = Append(inits, m)
            /\ initIdx' = NextInit(initIdx, ret)
    /\ UNCHANGED <<modules, moduleResources, keyOwners, dialOwners,
                   overlayWasActive, cpc, rpc, granted, keyH, dialH, asked, hret,
                   runCtx, cctx, listen, startRet, teardownVars, haOverlay,
                   now, last, hist, expiring, mgrVars>>

\* A Start that registers no handler.
setupEventHandlersNone == <<>>

\* Coordinator.setupEventHandlers: a key handler for each of the eight keys,
\* a rotation and a press handler for each of the four dials, and the touch
\* and swipe handlers of the strip
setupEventHandlers ==
    [k \in AllKeys |-> CallOf("device", "AddKeyHandler", k, NoEvent, Nil)]
       \o [d \in AllDials |-> CallOf("device", "AddDialRotateHandler", d, NoEvent, Nil)]
       \o [d \in AllDials |-> CallOf("device", "AddDialSwitchHandler", d, NoEvent, Nil)]
       \o <<CallOf("device", "AddTouchStripTouchHandler", 0, NoEvent, Nil),
            CallOf("device", "AddTouchStripSwipeHandler", 0, NoEvent, Nil)>>

\* The rest of Start: setupEventHandlers, then the Listen goroutine and the
\* render loop are started; from here events and render ticks arrive.
Start_Listen ==
    /\ cpc = "init" /\ initIdx > Len(modules)
    /\ cpc' = "running" /\ initIdx' = 0 /\ rpc' = "first"
    /\ listen' = "running"
    /\ step' = StepOf("Listen", 0, Nil)
    /\ calls' = Append(setupEventHandlers, CallOf("device", "Listen", 0, NoEvent, Nil))
    /\ UNCHANGED <<modules, moduleResources, keyOwners, dialOwners,
                   failedModules, overlayWasActive, initArg, initRet, granted,
                   keyH, dialH, asked, hret, inits, runCtx, cctx, startRet,
                   teardownVars, haOverlay, ovVars, mgrVars>>

\* A Coordinator that skips no module.
SkippedNever(m) == FALSE

\* The `if c.failedModules[m] { continue }` of every loop over c.modules
Skipped(m) == m \in failedModules

\* The non-failed modules in registration order
Live == SelectSeq(modules, LAMBDA m : ~Skipped(m))

\* `m.(module.OverlayProvider)`: github, and homeassistant where it has the
\* overlay capability
IsProvider(m) == m \in OverlayProviders \/ (m = "ha" /\ haOverlay # "none")

OverlayActive(m) ==
    \/ m = "gh" /\ IsOverlayActive(gh, now)
    \/ m = "ha" /\ haOverlay = "on"

\* A routing that never finds an overlay.
getActiveOverlayNone == Nil

\* A routing that takes the active overlay registered last.
getActiveOverlayLast ==
    LET act == SelectSeq(SelectSeq(Live, IsProvider), OverlayActive)
    IN IF act = <<>> THEN Nil ELSE act[Len(act)]

\* Coordinator.getActiveOverlay: the first non-failed module, in
\* registration order, whose overlay is active
getActiveOverlay ==
    LET act == SelectSeq(SelectSeq(Live, IsProvider), OverlayActive)
    IN IF act = <<>> THEN Nil ELSE act[1]

\* The overlay providers a scan for an active overlay asks: the non-failed
\* providers in registration order, up to the first whose overlay is active
Asked ==
    LET ps == SelectSeq(Live, IsProvider)
        n == CHOOSE n \in 1..(Len(ps) + 1) :
                 /\ n <= Len(ps) => OverlayActive(ps[n])
                 /\ \A j \in 1..(n - 1) : ~OverlayActive(ps[j])
    IN SubSeq(ps, 1, IF n > Len(ps) THEN Len(ps) ELSE n)

\* The github module after the IsOverlayActive calls of such a scan
AfterScan == IF "gh" \in Range(Asked) THEN AfterIsOverlayActive(gh, now) ELSE gh

InFlight ==
    Cardinality({k \in CoordKeys : keyH[k] # NoHandler})
    + Cardinality({d \in CoordDials : dialH[d] # NoHandler})

\* What an owner's handler returns: github's and weather's return nil.
OwnerReturns(m) == IF m \in {"gh", "w"} THEN {Nil} ELSE Returns

\* A handler that calls an owner whose Init failed.
DroppedUnownedOnly(owner) == owner = Nil

\* `if owner == nil || c.failedModules[owner] { return nil }`
Dropped(owner) == owner = Nil \/ Skipped(owner)

\* A handler that waits for the release whatever the press call returned.
AfterPressWaits(ret, h) == h

\* `if err := owner.HandleKey(key, event); err != nil { return err }`: the
\* handler goes on to WaitForRelease only when the press call returned nil.
AfterPress(ret, h) == IF ret = Nil THEN h ELSE NoHandler

coordFixed == <<modules, moduleResources, keyOwners, dialOwners, failedModules,
                cpc, initIdx, initArg, initRet, granted, inits, runCtx, cctx,
                listen, startRet, teardownVars, haOverlay>>

\* The key handler of setupEventHandlers, up to WaitForRelease
KeyHandler_Press(key) ==
    /\ cpc = "running" /\ listen = "running"
    /\ keyH[key] = NoHandler /\ InFlight < MaxHeld
    /\ asked' = Asked
    /\ LET overlay == getActiveOverlay
           owner == keyOwners[key]
       IN /\ step' = StepOf("KeyPress", key, overlay)
          /\ IF overlay # Nil
             THEN /\ gh' = IF overlay = "gh" THEN HandleOverlayKey(AfterScan, key, TRUE, now)
                           ELSE AfterScan
                  /\ calls' = <<CallOf(overlay, "HandleOverlayKey", key, PressEvent, Nil)>>
                  /\ keyH' = [keyH EXCEPT ![key] = Handler("overlay", overlay)]
                  /\ hret' = "none"
             ELSE IF Dropped(owner)
             THEN /\ gh' = AfterScan
                  /\ calls' = <<>>
                  /\ keyH' = keyH
                  /\ hret' = Nil
             ELSE \E ret \in OwnerReturns(owner) :
                  /\ gh' = IF owner = "gh" THEN HandleKey(AfterScan, key, TRUE, now)
                           ELSE AfterScan
                  /\ calls' = <<CallOf(owner, "HandleKey", key, PressEvent, ret)>>
                  /\ keyH' = [keyH EXCEPT ![key] = AfterPress(ret, Handler("owner", owner))]
                  /\ hret' = IF ret = Nil THEN "none" ELSE ret
    /\ UNCHANGED <<coordFixed, overlayWasActive, rpc, dialH, now, last, hist, expiring, mgrVars>>

\* A handler that looks for the overlay again after WaitForRelease.
RecipientNow(h) ==
    IF getActiveOverlay # Nil THEN Handler("overlay", getActiveOverlay)
    ELSE Handler("owner", h.mod)

\* After WaitForRelease a handler goes on in the branch it is in, with the
\* overlay or owner it has in its local variable.
Recipient(h) == h

\* The key handler from WaitForRelease on: the release goes to the handler
\* that got the press.
KeyHandler_Release(key) ==
    /\ cpc = "running" /\ keyH[key] # NoHandler
    /\ asked' = <<>>
    /\ \E d \in Durations :
         LET to == Recipient(keyH[key]).to
             mod == Recipient(keyH[key]).mod
             wait == CallOf("device", "WaitForRelease", key, NoEvent, d)
         IN /\ step' = StepOf("KeyRelease", key, IF to = "overlay" THEN mod ELSE Nil)
            /\ IF to = "overlay"
               THEN /\ gh' = IF mod = "gh" THEN HandleOverlayKey(gh, key, FALSE, now) ELSE gh
                    /\ calls' = <<wait, CallOf(mod, "HandleOverlayKey", key, ReleaseEvent(d), Nil)>>
                    /\ hret' = Nil
               ELSE \E ret \in OwnerReturns(mod) :
                    /\ gh' = IF mod = "gh" THEN HandleKey(gh, key, FALSE, now) ELSE gh
                    /\ calls' = <<wait, CallOf(mod, "HandleKey", key, ReleaseEvent(d), ret)>>
                    /\ hret' = ret
    /\ keyH' = [keyH EXCEPT ![key] = NoHandler]
    /\ UNCHANGED <<coordFixed, overlayWasActive, rpc, dialH, now, last, hist, expiring, mgrVars>>

\* The dial rotation handler
DialRotateHandler(dial) ==
    /\ cpc = "running" /\ listen = "running"
    /\ asked' = Asked
    /\ \E delta \in {-1, 1} :
         LET overlay == getActiveOverlay
             owner == dialOwners[dial]
             event == DialEvent("DialRotate", delta, 0)
         IN /\ step' = StepOf("DialRotate", dial, overlay)
            /\ IF overlay # Nil
               THEN /\ gh' = IF overlay = "gh"
                             THEN HandleOverlayDial(AfterScan, dial, "DialRotate", delta, now)
                             ELSE AfterScan
                    /\ calls' = <<CallOf(overlay, "HandleOverlayDial", dial, event, Nil)>>
                    /\ hret' = Nil
               ELSE IF Dropped(owner)
               THEN /\ gh' = AfterScan
                    /\ calls' = <<>>
                    /\ hret' = Nil
               ELSE \E ret \in OwnerReturns(owner) :
                    /\ gh' = AfterScan
                    /\ calls' = <<CallOf(owner, "HandleDial", dial, event, ret)>>
                    /\ hret' = ret
    /\ UNCHANGED <<coordFixed, overlayWasActive, rpc, keyH, dialH, now, last, hist, expiring, mgrVars>>

\* The dial press handler, up to WaitForRelease
DialSwitchHandler_Press(dial) ==
    /\ cpc = "running" /\ listen = "running"
    /\ dialH[dial] = NoHandler /\ InFlight < MaxHeld
    /\ asked' = Asked
    /\ LET overlay == getActiveOverlay
           owner == dialOwners[dial]
           event == DialEvent("DialPress", 0, 0)
       IN /\ step' = StepOf("DialPress", dial, overlay)
          /\ IF overlay # Nil
             THEN /\ gh' = IF overlay = "gh"
                           THEN HandleOverlayDial(AfterScan, dial, "DialPress", 0, now)
                           ELSE AfterScan
                  /\ calls' = <<CallOf(overlay, "HandleOverlayDial", dial, event, Nil)>>
                  /\ dialH' = [dialH EXCEPT ![dial] = Handler("overlay", overlay)]
                  /\ hret' = "none"
             ELSE IF Dropped(owner)
             THEN /\ gh' = AfterScan
                  /\ calls' = <<>>
                  /\ dialH' = dialH
                  /\ hret' = Nil
             ELSE \E ret \in OwnerReturns(owner) :
                  /\ gh' = AfterScan
                  /\ calls' = <<CallOf(owner, "HandleDial", dial, event, ret)>>
                  /\ dialH' = [dialH EXCEPT ![dial] = AfterPress(ret, Handler("owner", owner))]
                  /\ hret' = IF ret = Nil THEN "none" ELSE ret
    /\ UNCHANGED <<coordFixed, overlayWasActive, rpc, keyH, now, last, hist, expiring, mgrVars>>

\* The dial press handler from WaitForRelease on
DialSwitchHandler_Release(dial) ==
    /\ cpc = "running" /\ dialH[dial] # NoHandler
    /\ asked' = <<>>
    /\ \E d \in Durations :
         LET to == Recipient(dialH[dial]).to
             mod == Recipient(dialH[dial]).mod
             event == DialEvent("DialRelease", 0, d)
             wait == CallOf("device", "WaitForRelease", dial, NoEvent, d)
         IN /\ step' = StepOf("DialRelease", dial, IF to = "overlay" THEN mod ELSE Nil)
            /\ IF to = "overlay"
               THEN /\ gh' = IF mod = "gh" THEN HandleOverlayDial(gh, dial, "DialRelease", 0, now)
                             ELSE gh
                    /\ calls' = <<wait, CallOf(mod, "HandleOverlayDial", dial, event, Nil)>>
                    /\ hret' = Nil
               ELSE \E ret \in OwnerReturns(mod) :
                    /\ gh' = gh
                    /\ calls' = <<wait, CallOf(mod, "HandleDial", dial, event, ret)>>
                    /\ hret' = ret
    /\ dialH' = [dialH EXCEPT ![dial] = NoHandler]
    /\ UNCHANGED <<coordFixed, overlayWasActive, rpc, keyH, now, last, hist, expiring, mgrVars>>

\* Coordinator.routeStripEvent: the first non-failed module with a strip
\* region, Nil if there is none
StripModules == SelectSeq(Live, LAMBDA m : HasStrip(resourcesForModule(m)))

\* Where the strip is touched (Point.X): in the region of nowplaying and in
\* that of weather
StripXs == {100, 500}

\* The touch and the swipe handler of the strip
StripHandler ==
    /\ cpc = "running" /\ listen = "running"
    /\ asked' = Asked
    /\ \E type \in {"TouchTap", "TouchSwipe"}, x \in StripXs :
         LET overlay == getActiveOverlay
             event == [Type |-> type, X |-> x]
         IN /\ step' = StepOf("Strip", 0, overlay)
            /\ gh' = AfterScan
            /\ IF overlay # Nil
               THEN /\ calls' = <<CallOf(overlay, "HandleOverlayStripTouch", 0, event, Nil)>>
                    /\ hret' = Nil
               ELSE IF StripModules = <<>>
               THEN calls' = <<>> /\ hret' = Nil
               ELSE \E ret \in OwnerReturns(StripModules[1]) :
                      /\ calls' = <<CallOf(StripModules[1], "HandleStripTouch", 0, event, ret)>>
                      /\ hret' = ret
    /\ UNCHANGED <<coordFixed, overlayWasActive, rpc, keyH, dialH, now, last, hist, expiring, mgrVars>>

\* The calls op of every module of the sequence ms, in order
CallEach(ms, op) == [n \in 1..Len(ms) |-> CallOf(ms[n], op, 0, NoEvent, Nil)]

\* The image clearAllKeys sets
BlackImage == [Type |-> "black"]

\* Coordinator.clearAllKeys: GetKeyImageRectangle, which returns err, then
\* SetKeyImage of a black image on each of the eight keys; nothing is set
\* when err is not nil.
clearAllKeys(err) ==
    <<CallOf("device", "GetKeyImageRectangle", 0, NoEvent, err)>>
       \o (IF err = Nil
           THEN [k \in AllKeys |-> CallOf("device", "SetKeyImage", k, BlackImage, Nil)]
           ELSE <<>>)

\* A renderKeys that never clears.
ClearDueNever == FALSE

\* renderKeys, no overlay being active: `if c.overlayWasActive && !overlayActive`
ClearDue == overlayWasActive

\* Coordinator.renderKeys
renderKeys ==
    /\ cpc = "running" /\ rpc \in {"first", "keys"}
    /\ asked' = Asked /\ hret' = "none"
    /\ LET overlay == getActiveOverlay
       IN /\ step' = StepOf("renderKeys", 0, overlay)
          /\ gh' = AfterScan
          /\ IF overlay # Nil
             THEN /\ calls' = <<CallOf(overlay, "RenderOverlayKeys", 0, NoEvent, Nil)>>
                  /\ overlayWasActive' = TRUE
             ELSE /\ \E err \in Returns :
                       calls' = (IF ClearDue THEN clearAllKeys(err) ELSE <<>>)
                                   \o CallEach(Live, "RenderKeys")
                  /\ overlayWasActive' = FALSE
    /\ rpc' = "strip"
    /\ UNCHANGED <<coordFixed, keyH, dialH, now, last, hist, expiring, mgrVars>>

\* Coordinator.renderStrip
renderStrip ==
    /\ cpc = "running" /\ rpc = "strip"
    /\ asked' = Asked /\ hret' = "none"
    /\ LET overlay == getActiveOverlay
       IN /\ step' = StepOf("renderStrip", 0, overlay)
          /\ gh' = AfterScan
          /\ calls' = IF overlay # Nil
                      THEN <<CallOf(overlay, "RenderOverlayStrip", 0, NoEvent, Nil)>>
                      ELSE CallEach(StripModules, "RenderStrip")
    /\ rpc' = "keys"
    /\ UNCHANGED <<coordFixed, overlayWasActive, keyH, dialH, now, last, hist, expiring, mgrVars>>

\* A second passes.
TimePasses ==
    /\ cpc = "running" /\ now < MaxCoordTime
    /\ now' = now + 1
    /\ step' = StepOf("Tick", 0, Nil)
    /\ calls' = <<>> /\ asked' = <<>> /\ hret' = "none"
    /\ UNCHANGED <<coordFixed, overlayWasActive, rpc, keyH, dialH, gh, last,
                   hist, expiring, mgrVars>>

InitCoordinator == CoordNew /\ OvIdle /\ MgrIdle

\* A session of runWithDevice: its registrations, Start, then events, render
\* ticks and time in any order
NextCoordinator ==
    \/ Session_Register
    \/ Session_Start
    \/ Start_Init
    \/ Start_Listen
    \/ \E key \in CoordKeys : KeyHandler_Press(key)
    \/ \E key \in CoordKeys : KeyHandler_Release(key)
    \/ \E dial \in CoordDials : DialRotateHandler(dial)
    \/ \E dial \in CoordDials : DialSwitchHandler_Press(dial)
    \/ \E dial \in CoordDials : DialSwitchHandler_Release(dial)
    \/ StripHandler
    \/ renderKeys
    \/ renderStrip
    \/ TimePasses

SpecCoordinator == InitCoordinator /\ [][NextCoordinator]_vars

\* Any registrations followed by Start, up to the end of the Init loop
NextRegister ==
    \/ Any_Register
    \/ Start
    \/ Start_Init
    \/ Start_Listen

SpecRegister == InitCoordinator /\ [][NextRegister]_vars

\* ------------------------------------------------------------------------
\* The end of a session: the return of Listen and of Start, the end of the
\* render loop, Coordinator.Stop, and the teardown of runWithDevice
\* ------------------------------------------------------------------------
\* What the steps below leave alone
lifeFixed == <<modules, moduleResources, keyOwners, dialOwners, failedModules,
               overlayWasActive, initIdx, initArg, initRet, granted,
               keyH, dialH, inits, haOverlay, ovVars, mgrVars>>

\* The process is running.
Alive == run # "exited"

\* A step of the session's goroutines that calls no module
NoCalls ==
    /\ step' = StepOf("Lifecycle", 0, Nil)
    /\ calls' = <<>> /\ asked' = <<>> /\ hret' = "none"

\* Cancelling a context cancels the context derived from it.
Cancelled(c) == IF c = "live" THEN "done" ELSE c

\* device.Listen returns, in the goroutine of Start: an error is sent on
\* listenErr, and listenErr is closed.  The hardware's Listen ends with an
\* error; the emulator's returns nil once its window is closed.
Listen_Return ==
    /\ Alive
    /\ listen = "running"
    /\ \E ret \in Returns : listen' = ret
    /\ NoCalls
    /\ UNCHANGED <<lifeFixed, cpc, rpc, runCtx, cctx, startRet, teardownVars>>

\* A Start that does not block.
StartCasesNonBlocking == {Nil}

\* The select at the end of Start: ctx.Done gives nil, listenErr gives the
\* error Listen returned, or nil once the channel is closed and empty.
StartCases ==
    (IF cctx = "done" THEN {Nil} ELSE {})
       \cup (IF listen \in Returns THEN {listen} ELSE {})

Start_Select ==
    /\ Alive
    /\ cpc = "running" /\ startRet = "none"
    /\ \E ret \in StartCases : startRet' = ret
    /\ NoCalls
    /\ UNCHANGED <<lifeFixed, cpc, rpc, runCtx, cctx, listen, teardownVars>>

\* A render loop without the ctx.Done case.
RenderNeverStops == FALSE

\* The ctx.Done case of the select of renderLoop
RenderMayStop == cctx = "done"

\* renderLoop returns from its select; the ticker case is renderKeys.
renderLoop_Done ==
    /\ cpc = "running" /\ rpc = "keys" /\ RenderMayStop
    /\ rpc' = "stopped"
    /\ NoCalls
    /\ UNCHANGED <<lifeFixed, cpc, runCtx, cctx, listen, startRet, teardownVars>>

\* The top-level context is cancelled (a signal); main does not begin a
\* session with a cancelled context.
Top_Cancel ==
    /\ Alive
    /\ ~topDone /\ Len(modules) = Len(RunRegistrations)
    /\ topDone' = TRUE
    /\ runCtx' = "done" /\ cctx' = Cancelled(cctx)
    /\ NoCalls
    /\ UNCHANGED <<lifeFixed, cpc, rpc, listen, startRet, spc, stopIdx, stopBusy,
                   run, devState>>

\* What may end the select of runWithDevice: ctx.Done, Start's result on
\* errChan, a wake signal at any time.
TeardownTriggers ==
    (IF topDone THEN {"ctx"} ELSE {})
       \cup (IF startRet # "none" THEN {"err"} ELSE {}) \cup {"wake"}

\* runWithDevice from its select to the launch of coord.Stop: runCancel,
\* then `go coord.Stop()`.  Start was launched in a goroutine of its own
\* and may not have run yet.
Sess_Teardown ==
    /\ run = "select" /\ Len(modules) = Len(RunRegistrations)
    /\ TeardownTriggers # {}
    /\ run' = "stop" /\ spc' = "cancel"
    /\ runCtx' = "done" /\ cctx' = Cancelled(cctx)
    /\ NoCalls
    /\ UNCHANGED <<lifeFixed, cpc, rpc, listen, startRet, stopIdx, stopBusy,
                   devState, topDone>>

\* Coordinator.Stop: c.cancel(), if Start has set it
Stop_Cancel ==
    /\ Alive
    /\ spc = "cancel"
    /\ spc' = "loop" /\ stopIdx' = 1
    /\ cctx' = Cancelled(cctx)
    /\ NoCalls
    /\ UNCHANGED <<lifeFixed, cpc, rpc, runCtx, listen, startRet, stopBusy, run,
                   devState, topDone>>

\* A Stop loop that does not wait for the call before.
PreviousReturnedAny(busy) == TRUE

\* m.Stop() is an ordinary call: the loop goes on when it has returned.
PreviousReturned(busy) == busy = 0

\* Coordinator.Stop: the next m.Stop() of the loop over c.modules
Stop_Call ==
    /\ Alive
    /\ spc = "loop" /\ stopIdx <= Len(modules) /\ PreviousReturned(stopBusy)
    /\ calls' = <<CallOf(modules[stopIdx], "Stop", 0, NoEvent, Nil)>>
    /\ step' = StepOf("Stop", stopIdx, Nil) /\ asked' = <<>> /\ hret' = "none"
    /\ stopIdx' = stopIdx + 1 /\ stopBusy' = stopBusy + 1
    /\ UNCHANGED <<lifeFixed, cpc, rpc, runCtx, cctx, listen, startRet, spc, run,
                   devState, topDone>>

\* A module's Stop returns.
Stop_ModuleReturn ==
    /\ Alive
    /\ stopBusy > 0
    /\ stopBusy' = stopBusy - 1
    /\ NoCalls
    /\ UNCHANGED <<lifeFixed, cpc, rpc, runCtx, cctx, listen, startRet, spc,
                   stopIdx, run, devState, topDone>>

\* Coordinator.Stop: c.wg.Wait() returns when no render loop is counted.
Stop_Done ==
    /\ Alive
    /\ spc = "loop" /\ stopIdx > Len(modules) /\ stopBusy = 0
    /\ rpc \in {"none", "stopped"}
    /\ spc' = "done"
    /\ NoCalls
    /\ UNCHANGED <<lifeFixed, cpc, rpc, runCtx, cctx, listen, startRet, stopIdx,
                   stopBusy, run, devState, topDone>>

\* runWithDevice: stopDone or the 2 s timeout, the 200 ms delay, then
\* `go dev.Close()`
Sess_Stopped ==
    /\ run = "stop"
    /\ \E timeout \in BOOLEAN : timeout \/ spc = "done"
    /\ run' = "close" /\ devState' = "closing"
    /\ NoCalls
    /\ UNCHANGED <<lifeFixed, cpc, rpc, runCtx, cctx, listen, startRet, spc,
                   stopIdx, stopBusy, topDone>>

\* dev.Close returns.
Dev_Closed ==
    /\ Alive
    /\ devState = "closing"
    /\ devState' = "closed"
    /\ NoCalls
    /\ UNCHANGED <<lifeFixed, cpc, rpc, runCtx, cctx, listen, startRet, spc,
                   stopIdx, stopBusy, run, topDone>>

\* runWithDevice: the last select: os.Exit on ctx.Done, else closeDone or
\* the 3 s timeout
Sess_Closed ==
    /\ run = "close"
    /\ \/ topDone /\ run' = "exited" /\ cpc' = "exited"
       \/ devState = "closed" /\ run' = "after" /\ cpc' = cpc
       \/ run' = "after" /\ cpc' = cpc
    /\ NoCalls
    /\ UNCHANGED <<lifeFixed, rpc, runCtx, cctx, listen, startRet, spc,
                   stopIdx, stopBusy, devState, topDone>>

\* main after runWithDevice: it returns when ctx is done, which ends the
\* process and every goroutine with it.
Sess_Exit ==
    /\ run = "after" /\ topDone
    /\ run' = "exited" /\ cpc' = "exited"
    /\ NoCalls
    /\ UNCHANGED <<lifeFixed, rpc, runCtx, cctx, listen, startRet, spc,
                   stopIdx, stopBusy, devState, topDone>>

\* The controls on which the session model delivers events
LifeKeys == {3}

\* The goroutines of a session, from the registrations of runWithDevice to
\* its teardown, without the events of the device
NextTeardown ==
    \/ Session_Register
    \/ Session_Start
    \/ Start_Init
    \/ Start_Listen
    \/ Start_Select
    \/ renderKeys
    \/ renderStrip
    \/ renderLoop_Done
    \/ Listen_Return
    \/ Top_Cancel
    \/ Sess_Teardown
    \/ Stop_Cancel
    \/ Stop_Call
    \/ Stop_ModuleReturn
    \/ Stop_Done
    \/ Sess_Stopped
    \/ Dev_Closed
    \/ Sess_Closed
    \/ Sess_Exit

\* A session of runWithDevice with key events
NextLifecycle ==
    \/ NextTeardown
    \/ \E key \in LifeKeys : KeyHandler_Press(key)
    \/ \E key \in LifeKeys : KeyHandler_Release(key)

SpecLifecycle == InitCoordinator /\ [][NextLifecycle]_vars

\* Where the goroutines of a session are: each of their steps changes it.
lifePc == <<Len(modules), cpc, initIdx, rpc, listen, startRet, spc, stopIdx,
            run>>

\* The sequential code of runWithDevice up to the launch of Start, and of
\* Start in its goroutine
StartStep ==
    Session_Register \/ Session_Start \/ Start_Init \/ Start_Listen
       \/ Start_Select

\* A render of the render loop
RenderStep == renderKeys \/ renderStrip

\* The sequential code of Coordinator.Stop
StopStep == Stop_Cancel \/ Stop_Call \/ Stop_Done

\* The selects of runWithDevice and of main: ctx.Done or errChan is ready,
\* or a timeout ends the wait.
TeardownStep ==
    \/ Sess_Teardown /\ (topDone \/ startRet # "none")
    \/ Sess_Stopped
    \/ Sess_Closed
    \/ Sess_Exit

\* The goroutines are scheduled fairly: the sequential code of Start and of
\* Coordinator.Stop goes on, a render call returns, the selects of
\* runWithDevice end through their timeouts, a select with ctx.Done ready
\* takes that case sooner or later, and Listen fails on a closed device.
\* Nothing is assumed about when a module's Stop or dev.Close returns, nor
\* about signals, wake events and the user.
SpecLifecycleFair ==
    /\ InitCoordinator /\ [][NextTeardown]_vars
    /\ WF_lifePc(StartStep)
    /\ WF_lifePc(RenderStep)
    /\ SF_lifePc(renderLoop_Done)
    /\ WF_lifePc(StopStep)
    /\ WF_lifePc(TeardownStep)
    /\ WF_lifePc(Listen_Return /\ devState = "closed")

\* ------------------------------------------------------------------------
\* One session after the other
\* ------------------------------------------------------------------------
\* A manager that keeps the objects of the session before.
DiscardKeep(old, new) == old

\* runWithDevice builds its Coordinator and its modules anew
\* (coordinator.New, nowplaying.New, weather.New, homeassistant.New,
\* github.New): nothing of the objects of the session before is used.
Discard(old, new) == new

\* main loops: runWithDevice has returned, the context is live, a device is
\* acquired again and runWithDevice is called again, up to its constructors.
\* The step records how many failed modules the Coordinator left behind had,
\* and whether its overlay flag was set.
Sess_Next ==
    /\ run = "after" /\ ~topDone
    /\ modules' = Discard(modules, <<>>)
    /\ moduleResources' = Discard(moduleResources, [m \in Modules |-> NoResources])
    /\ keyOwners' = Discard(keyOwners, [k \in AllKeys |-> Nil])
    /\ dialOwners' = Discard(dialOwners, [d \in AllDials |-> Nil])
    /\ failedModules' = Discard(failedModules, {})
    /\ overlayWasActive' = Discard(overlayWasActive, FALSE)
    /\ gh' = Discard(gh, NewModule(GhResources, 0, 0))
    /\ cpc' = "new" /\ initIdx' = 0 /\ rpc' = "none"
    /\ initArg' = [m \in Modules |-> NoResources]
    /\ initRet' = [m \in Modules |-> "none"]
    /\ granted' = [m \in Modules |-> <<>>]
    /\ keyH' = [k \in CoordKeys |-> NoHandler]
    /\ dialH' = [d \in CoordDials |-> NoHandler]
    /\ inits' = <<>> /\ asked' = <<>> /\ hret' = "none"
    /\ runCtx' = "live" /\ cctx' = "none" /\ listen' = "none"
    /\ startRet' = "none"
    /\ spc' = "none" /\ stopIdx' = 0 /\ stopBusy' = 0
    /\ run' = "select" /\ devState' = "open"
    /\ haOverlay' = IF haOverlay = "none" THEN "none" ELSE "off"
    /\ step' = StepOf("NewSession", Cardinality(failedModules),
                      IF overlayWasActive THEN "gh" ELSE Nil)
    /\ calls' = [n \in 1..Len(RunRegistrations) |->
                    CallOf(RunRegistrations[n].m, "New", 0, NoEvent, Nil)]
    /\ UNCHANGED <<topDone, now, last, hist, expiring, mgrVars>>

\* Sessions of runWithDevice, one after the other, with the events of one
\* key of the github module
NextSessions ==
    \/ Session_Register
    \/ Session_Start
    \/ Start_Init
    \/ Start_Listen
    \/ \E key \in LifeKeys : KeyHandler_Press(key)
    \/ \E key \in LifeKeys : KeyHandler_Release(key)
    \/ renderKeys
    \/ renderStrip
    \/ Sess_Teardown
    \/ Sess_Stopped
    \/ Sess_Closed
    \/ Sess_Next

SpecSessions == InitCoordinator /\ [][NextSessions]_vars

\* ------------------------------------------------------------------------
\* A session in which the homeassistant module has the overlay capability
\* as well
\* ------------------------------------------------------------------------
\* The homeassistant module is built with an overlay, and later its overlay
\* starts or ends.
Ha_Overlay ==
    /\ \/ haOverlay = "none" /\ cpc = "new" /\ modules = <<>> /\ haOverlay' = "off"
       \/ haOverlay = "off" /\ cpc = "running" /\ haOverlay' = "on"
       \/ haOverlay = "on" /\ cpc = "running" /\ haOverlay' = "off"
    /\ step' = StepOf("Module", 0, Nil)
    /\ calls' = <<>> /\ asked' = <<>> /\ hret' = "none"
    /\ UNCHANGED <<modules, moduleResources, keyOwners, dialOwners, failedModules,
                   overlayWasActive, cpc, initIdx, rpc, initArg, initRet, granted,
                   keyH, dialH, inits, runCtx, cctx, listen, startRet,
                   teardownVars, ovVars, mgrVars>>

\* A session with two overlay providers: events of one key of the github
\* module and of the strip, render ticks and time
NextProviders ==
    \/ Ha_Overlay
    \/ Session_Register
    \/ Session_Start
    \/ Start_Init
    \/ Start_Listen
    \/ \E key \in LifeKeys : KeyHandler_Press(key)
    \/ \E key \in LifeKeys : KeyHandler_Release(key)
    \/ StripHandler
    \/ renderKeys
    \/ renderStrip
    \/ TimePasses

SpecProviders == InitCoordinator /\ [][NextProviders]_vars

\* ------------------------------------------------------------------------
\* Properties of the device lifecycle manager (SpecManager)
\* ------------------------------------------------------------------------
\* C3: at most one enumeration worker is outstanding, and a call of
\* tryGetDeviceWithTimeout made while a worker has not returned (its caller
\* waiting or timed out) starts no worker and returns nil at once.
C3_SingleFlight ==
    /\ [](Cardinality(WorkersRunning) <= 1)
    /\ [][ (pc \in CallSites /\ pc' # pc /\ WorkersRunning # {})
            => /\ enum' = enum
               /\ pc' = AfterNil(SiteOf(pc))
               /\ lastTry' = "busy"
               /\ dev' = Nil ]_vars

\* A call returned nil at once because the worker of a timed-out call is
\* still outstanding.
C3_Witness ==
    /\ lastTry = "busy"
    /\ \E k \in 1..MaxEnum : enum[k].worker = "running" /\ enum[k].reader = "cleanup"

\* C4: a handle a worker produced after its caller timed out is never the
\* handle a caller gets; when it leaves its channel it is closed by the
\* cleanup goroutine, and it does leave the channel unless the process
\* exits first.  A caller gets a handle only from its own call's channel
\* while it has not timed out.
C4_LateHandleClosed ==
    /\ [](dev # "latedev")
    /\ [][ \A k \in 1..MaxEnum :
              /\ (enum[k].reader = "cleanup" /\ enum[k].ch \in {"dev", "latedev"}
                  /\ enum'[k] # enum[k])
                 => lastClosed' = <<enum[k].ch, "cleanup">>
              /\ (enum[k].reader = "cleanup" /\ enum'[k] # enum[k])
                 => dev' = dev ]_vars
    /\ [][ (dev = Nil /\ dev' # Nil)
            => (pc = "try_wait" /\ enum[cur].reader = "caller" /\ enum[cur].ch = dev') ]_vars
    /\ \A k \in 1..MaxEnum :
          (enum[k].ch = "latedev") ~> (enum[k].ch # "latedev" \/ pc = "exited")

\* The cleanup goroutine has closed a handle that arrived after the timeout.
C4_Witness == lastClosed = <<"latedev", "cleanup">>

\* C10: the main loop is left only when the top-level context is
\* cancelled; a probe that yields no device leaves the manager waiting; a
\* session ended by a Listen error is torn down and the manager is back at
\* the start of waitForHardwareDevice unless cancellation ends it first.
C10_LoopEndsOnlyOnCancel ==
    /\ [](pc = "exited" => ctxDone)
    /\ [][ (lastTry' \in {"busy", "err", "timeout"} /\ pc' # pc)
            => pc' \in {"wfd_select", "wfd_wake_sleep"} ]_vars
    /\ [][ (pc = "main_after" /\ pc' # pc /\ ~ctxDone) => pc' = "wfd_first" ]_vars
    /\ (cause = "err" /\ pc = "run_stop") ~> (pc = "wfd_first" \/ pc = "exited")

\* After a session ended by a Listen error, with no cancellation, a device
\* has been acquired again.
C10_Witness ==
    /\ cause = "err" /\ ~ctxDone
    /\ pc = "main_check" /\ dev = "dev"


\* ------------------------------------------------------------------------
\* Properties of the overlay state (SpecOverlay)
\* ------------------------------------------------------------------------
QueryStep == last'.op = "IsOverlayActive"

\* C5: once the expiry has passed, the first IsOverlayActive query returns
\* false and sets the overlay state to none; a query that finds the state
\* none returns false and changes nothing; and the passing of time alone
\* (there is no timer) never changes the module's state: the overlay state
\* goes to none only in a query or in a Dial4 release.
C5_LazyExpiry ==
    [][ /\ (QueryStep /\ gh.overlayType # "OverlayNone" /\ now > gh.overlayExpiry)
            => (last'.ret = FALSE /\ gh'.overlayType = "OverlayNone")
        /\ (QueryStep /\ gh.overlayType = "OverlayNone")
            => (last'.ret = FALSE /\ gh' = gh)
        /\ (now' # now) => (gh' = gh)
        /\ (gh.overlayType # "OverlayNone" /\ gh'.overlayType = "OverlayNone")
            => (QueryStep \/ (last'.op = "HandleOverlayDial" /\ last'.id = Dial4
                               /\ last'.ev = "DialRelease"))
      ]_vars

\* An overlay activated, never touched again, queried after its expiry:
\* the query returned false and the state is none.
C5_Witness ==
    /\ last.op = "IsOverlayActive" /\ last.ret = FALSE
    /\ hist.act >= 0 /\ hist.rot = -1
    /\ now > hist.act + OverlayDuration
    /\ gh.overlayType = "OverlayNone"
    /\ gh.overlayExpiry = hist.act + OverlayDuration

\* C6 as stated: a rotation of any dial handled by the active overlay sets
\* the expiry to the time of the rotation plus the overlay duration.
C6_AnyDialRotationExtends ==
    [][ (last'.op = "HandleOverlayDial" /\ last'.ev = "DialRotate"
         /\ IsOverlayActive(gh, now))
        => gh'.overlayExpiry = now + OverlayDuration ]_vars

\* C6 amended: a rotation of Dial4 handled by the overlay sets the expiry to
\* the time of the rotation plus the overlay duration, and a query made
\* after an activation and a Dial4 rotation reports active exactly up to
\* that new expiry (activation at 0, rotation at 3: active at 6, inactive
\* at 9) and leaves the state none when it reports inactive.
C6_Dial4RotationExtends ==
    /\ [][ (last'.op = "HandleOverlayDial" /\ last'.id = Dial4
             /\ last'.ev = "DialRotate")
            => gh'.overlayExpiry = now + OverlayDuration ]_vars
    /\ [](  (last.op = "IsOverlayActive" /\ hist.act >= 0 /\ hist.rot >= 0)
            => /\ last.ret = (now <= hist.rot + OverlayDuration)
               /\ (~last.ret => gh.overlayType = "OverlayNone"))

\* Activation at 0, Dial4 rotation at 3, query at 6 answered active.
C6_Witness ==
    /\ hist.act = 0 /\ hist.rot = 3 /\ now = 6
    /\ last.op = "IsOverlayActive" /\ last.ret = TRUE

\* C7 as stated: a key press handled by the active overlay re-arms the
\* expiry as a rotation does.
C7_KeyExtendsExpiry ==
    [][ (last'.op = "HandleOverlayKey" /\ last'.ev = "Press"
         /\ IsOverlayActive(gh, now))
        => gh'.overlayExpiry = now + OverlayDuration ]_vars

\* C7 amended: a call of HandleOverlayKey, press or release, leaves the
\* overlay's expiry, type and page as they were.
C7_KeyLeavesExpiry ==
    [][ last'.op = "HandleOverlayKey" => gh' = gh ]_vars

\* A key press handled by an active overlay some time after its activation:
\* the expiry is still the one set at activation.
C7_Witness ==
    /\ last.op = "HandleOverlayKey" /\ last.ev = "Press"
    /\ IsOverlayActive(gh, now)
    /\ hist.act >= 0 /\ hist.rot = -1 /\ now > hist.act
    /\ gh.overlayExpiry = hist.act + OverlayDuration

\* ------------------------------------------------------------------------
\* Properties of the Coordinator (SpecCoordinator, SpecRegister)
\* ------------------------------------------------------------------------
\* The overlay of the github module is active and the module is not failed.
OverlayOn ==
    /\ "gh" \in Range(modules) /\ "gh" \notin failedModules
    /\ IsOverlayActive(gh, now)

OwnerHandlers == {"HandleKey", "HandleDial", "HandleStripTouch"}

OverlayHandlers == {"HandleOverlayKey", "HandleOverlayDial", "HandleOverlayStripTouch"}

\* C1: RenderKeys and HandleKey are called only on modules whose Init
\* returned success (never on a module whose Init returned an error), and a
\* renderKeys that finds no overlay active calls RenderKeys on every module
\* whose Init succeeded.
C1_OnlyInitialisedModulesCalled ==
    /\ [][ \A n \in 1..Len(calls') :
              calls'[n].op \in {"RenderKeys", "HandleKey"}
                 => initRet[calls'[n].mod] = "ok" ]_vars
    /\ [][ (step'.kind = "renderKeys" /\ ~OverlayOn)
              => \A m \in Range(modules) :
                    initRet[m] = "ok"
                       => \E n \in 1..Len(calls') :
                             calls'[n].mod = m /\ calls'[n].op = "RenderKeys" ]_vars

C1_Witness ==
    /\ failedModules = {"ha"} /\ step = StepOf("renderKeys", 0, Nil)
    /\ calls = <<CallOf("np", "RenderKeys", 0, NoEvent, Nil),
                 CallOf("w", "RenderKeys", 0, NoEvent, Nil),
                 CallOf("gh", "RenderKeys", 0, NoEvent, Nil)>>

OwnerLive(k) == keyOwners[k] # Nil /\ keyOwners[k] \notin failedModules

\* C8 as stated: with no overlay active, the press of a key owned by a
\* non-failed module calls the owner's HandleKey with Pressed=true and is
\* always followed by the release call; the release calls HandleKey with
\* Pressed=false and the duration WaitForRelease returned.
C8_AlwaysTwoHandleKeyCalls ==
    /\ [][ (step'.kind = "KeyPress" /\ ~OverlayOn /\ OwnerLive(step'.id))
              => /\ Len(calls') = 1
                 /\ calls'[1].mod = keyOwners[step'.id]
                 /\ calls'[1].op = "HandleKey" /\ calls'[1].id = step'.id
                 /\ calls'[1].ev.Pressed = TRUE
                 /\ keyH'[step'.id] = Handler("owner", keyOwners[step'.id]) ]_vars
    /\ [][ (step'.kind = "KeyRelease" /\ keyH[step'.id].to = "owner")
              => /\ Len(calls') = 2
                 /\ calls'[1].op = "WaitForRelease"
                 /\ calls'[2].mod = keyOwners[step'.id]
                 /\ calls'[2].op = "HandleKey" /\ calls'[2].id = step'.id
                 /\ calls'[2].ev = [Pressed |-> FALSE, Duration |-> calls'[1].ret]
                 /\ keyH'[step'.id] = NoHandler ]_vars

\* C8, amended: the press call is followed by the release call when it
\* returned nil; a press call that returned an error ends the delivery, so
\* that HandleKey was called once.  Every HandleKey call is the one call of
\* a press or of a release of its key.
C8_TwoHandleKeyCallsUnlessPressFails ==
    /\ [][ (step'.kind = "KeyPress" /\ ~OverlayOn /\ OwnerLive(step'.id))
              => /\ Len(calls') = 1
                 /\ calls'[1].mod = keyOwners[step'.id]
                 /\ calls'[1].op = "HandleKey" /\ calls'[1].id = step'.id
                 /\ calls'[1].ev.Pressed = TRUE
                 /\ keyH'[step'.id] = IF calls'[1].ret = Nil
                                      THEN Handler("owner", keyOwners[step'.id])
                                      ELSE NoHandler ]_vars
    /\ [][ (step'.kind = "KeyRelease" /\ keyH[step'.id].to = "owner")
              => /\ Len(calls') = 2
                 /\ calls'[1].op = "WaitForRelease"
                 /\ calls'[2].mod = keyOwners[step'.id]
                 /\ calls'[2].op = "HandleKey" /\ calls'[2].id = step'.id
                 /\ calls'[2].ev = [Pressed |-> FALSE, Duration |-> calls'[1].ret]
                 /\ keyH'[step'.id] = NoHandler ]_vars
    /\ [][ \A n \in 1..Len(calls') :
              calls'[n].op = "HandleKey"
                 => /\ step'.kind \in {"KeyPress", "KeyRelease"}
                    /\ calls'[n].id = step'.id
                    /\ n = Len(calls')
                    /\ (step'.kind = "KeyPress") = calls'[n].ev.Pressed
                    /\ (step'.kind = "KeyPress") = (keyH[step'.id] = NoHandler) ]_vars

C8_Witness ==
    /\ ~OverlayOn /\ step = StepOf("KeyRelease", 1, Nil)
    /\ calls = <<CallOf("device", "WaitForRelease", 1, NoEvent, 3),
                 CallOf("ha", "HandleKey", 1, [Pressed |-> FALSE, Duration |-> 3], Nil)>>

\* C9: for a module registered once with resources R, the resources stored
\* for it are R from its registration on, whatever is registered afterwards,
\* and its Init is called with R.
C9_ResourcesRoundTrip ==
    /\ [](\A m \in Modules :
             Len(granted[m]) = 1
                => /\ moduleResources[m] = granted[m][1]
                   /\ initRet[m] # "none" => initArg[m] = granted[m][1])
    /\ [][ step'.kind = "RegisterModule"
              => \A m \in Modules \ {modules'[Len(modules')]} :
                    moduleResources'[m] = moduleResources[m] ]_vars

C9_Witness ==
    /\ cpc = "running" /\ Len(modules) = 3
    /\ modules[1] = "ha" /\ modules[2] = "np" /\ modules[3] = "np"
    /\ granted["ha"] = <<RunRegistrations[1].res>>
    /\ granted["np"] = <<RunRegistrations[1].res, RunRegistrations[3].res>>
    /\ initRet["ha"] = "ok" /\ initArg["ha"] = RunRegistrations[1].res

\* ------------------------------------------------------------------------
\* Properties of the teardown and of the wake handling (SpecManagerFair)
\* ------------------------------------------------------------------------
\* C11: once a teardown trigger has occurred, runWithDevice finishes (it
\* returns to main or exits the process), and so does the wait for dev.Close,
\* in every behaviour, those in which coord.Stop and dev.Close never return
\* included: the wait for Stop ends with its timeout, the wait for Close with
\* its own.
C11_TeardownFinishes ==
    /\ (pc = "run_stop") ~> (pc \in {"main_after", "exited"})
    /\ (pc = "run_close") ~> (pc \in {"main_after", "exited"})

C11_Witness ==
    /\ pc = "run_close" /\ cause # "none"
    /\ stopState = "running" /\ closeState = "running"

\* C12: a teardown of a session is triggered by a wake signal only if the
\* signal arrived after the session started: a signal that arrived while
\* main waited for the device, or during the stabilization delay, never is
\* the trigger.
C12_StaleWakeNeverTearsDown ==
    [][ (pc = "run_select" /\ pc' = "run_stop" /\ cause' = "wake")
           => wakeAt = "session" ]_vars

\* A wake signal that arrived during the stabilization delay is still in
\* wakeCh when runWithDevice starts.
C12_Witness ==
    /\ pc = "run_select" /\ cause = "none"
    /\ wakeCh = 1 /\ wakeAt = "delay"

\* C13: a wake signal alone ends the wait of a running session (no device
\* error and no cancellation is needed); the session that received it has
\* its context cancelled and coord.Stop started, goes on to start dev.Close
\* on its device, and afterwards the manager acquires a device again unless
\* the process was cancelled.
C13_WakeForcesReconnect ==
    /\ (pc = "run_select" /\ wakeCh > 0) ~> (pc # "run_select")
    /\ [][ (pc = "run_select" /\ pc' = "run_stop" /\ cause' = "wake")
              => /\ wakeCh = 1 /\ wakeCh' = 0
                 /\ runCancelled' /\ stopState' = "running" ]_vars
    /\ [][ (cause = "wake" /\ pc = "run_delay" /\ pc' # pc)
              => /\ pc' = "run_close" /\ closeState' = "running"
                 /\ dev # Nil /\ lastClosed' = <<dev, "runWithDevice">> ]_vars
    /\ (cause = "wake" /\ pc = "run_stop") ~> (pc \in CallSites \/ pc = "exited")

C13_Witness ==
    /\ cause = "wake" /\ ~ctxDone
    /\ pc = "try_wait" /\ tryFrom = "first"
    /\ lastClosed = <<"none", "none">>

\* The wake loop of waitForHardwareDevice is running: an attempt is about to
\* be made, is in progress, or has failed and the retry interval runs.
InWakeLoop ==
    \/ pc \in {"wfd_wake", "wfd_wake_sleep"}
    \/ pc = "try_wait" /\ tryFrom = "wake"

C15_CancelDuringCloseExits ==
    /\ (pc = "run_close" /\ ctxDone) ~> (pc = "exited")
    /\ [][ (pc = "run_close" /\ ctxDone /\ closeState = "running" /\ pc' # pc)
              => /\ pc' \in {"exited", "main_after"}
                 /\ closeState' # "done" ]_vars
    /\ [][ (pc = "main_after" /\ ctxDone /\ pc' # pc) => pc' = "exited" ]_vars

C15_Witness ==
    /\ pc = "exited" /\ ctxDone
    /\ closeState = "running" /\ lastClosed[2] = "runWithDevice"


\* ------------------------------------------------------------------------
\* Properties of Start and Stop of the Coordinator
\* ------------------------------------------------------------------------
\* How often the module m occurs in the sequence ms
Count(m, ms) == Cardinality({n \in 1..Len(ms) : ms[n] = m})

\* C16: Start calls Init once per registration, in registration order (a
\* module registered once gets exactly one Init call), only the Init loop
\* calls Init, and whatever the Init calls returned the loop reaches its end,
\* after which the event handlers are installed and the Listen goroutine and
\* the render loop are started.
C16_InitEachOnceInOrder ==
    /\ [](cpc = "init" => /\ Len(inits) = initIdx - 1
                          /\ Len(inits) <= Len(modules)
                          /\ inits = SubSeq(modules, 1, Len(inits)))
    /\ [](cpc = "running" => /\ inits = modules
                             /\ \A m \in Modules : Count(m, inits) = Count(m, modules)
                             /\ listen = "running" /\ rpc # "none")
    /\ [][ \A n \in 1..Len(calls') :
              calls'[n].op = "Init"
                 => /\ cpc = "init" /\ Len(calls') = 1
                    /\ calls'[n].mod = modules[Len(inits) + 1]
                    /\ inits' = Append(inits, calls'[n].mod) ]_vars

\* Init of the first of three different modules failed; the other two were
\* initialised and Start went on to install the handlers.
C16_Witness ==
    /\ cpc = "running" /\ Len(modules) = MaxReg
    /\ Cardinality(Range(modules)) = MaxReg
    /\ failedModules = {modules[1]}
    /\ inits = modules
    /\ initRet[modules[2]] = "ok" /\ initRet[modules[3]] = "ok"
    /\ listen = "running" /\ rpc = "first"

\* C17 as stated: once a module's Init has returned an error no step of the
\* Coordinator calls that module again, Stop included, and no step asks it
\* IsOverlayActive.
C17_NoCallAfterInitError ==
    [][ \A m \in Modules :
           initRet[m] = "err"
              => /\ \A n \in 1..Len(calls') : calls'[n].mod # m
                 /\ m \notin Range(asked') ]_vars

\* C17: once a module's Init has returned an error the only call the
\* Coordinator still makes on it is Stop: no render call, no event handler
\* and no IsOverlayActive query reaches it, while the loop of
\* Coordinator.Stop calls Stop on every entry of c.modules, failed or not.
C17_OnlyStopAfterInitError ==
    /\ [][ \A m \in Modules :
              initRet[m] = "err"
                 => /\ \A n \in 1..Len(calls') :
                          calls'[n].mod = m => calls'[n].op = "Stop"
                    /\ m \notin Range(asked') ]_vars
    /\ [][ step'.kind = "Stop"
              => /\ stopIdx \in 1..Len(modules)
                 /\ calls' = <<CallOf(modules[stopIdx], "Stop", 0, NoEvent, Nil)>> ]_vars

\* Init of the github module failed; the render loop ran without it and has
\* ended, and Coordinator.Stop has just called its Stop.
C17_Witness ==
    /\ failedModules = {"gh"} /\ initRet["gh"] = "err"
    /\ rpc = "stopped"
    /\ step.kind = "Stop"
    /\ calls = <<CallOf("gh", "Stop", 0, NoEvent, Nil)>>

\* Start returns in this step.
StartReturns == startRet = "none" /\ startRet' # "none"

\* C18 as stated: Start returns only when its context is cancelled or Listen
\* has failed; a nil result means the context was cancelled, an error is the
\* error of Listen.
C18_StartReturnsOnCancelOrListenError ==
    [][ StartReturns
           => /\ cctx = "done" \/ listen = "err"
              /\ startRet' = Nil => cctx = "done"
              /\ startRet' = "err" => listen = "err" ]_vars

\* C18: Start returns only after the Init loop, and only when its context is
\* cancelled or Listen has returned, with or without an error; an error
\* result is the error of Listen, and a nil result means that the context
\* was cancelled or that Listen returned nil.
C18_StartReturnsOnCancelOrListenReturn ==
    /\ [][ StartReturns
              => /\ cpc = "running" /\ inits = modules
                 /\ cctx = "done" \/ listen \in Returns
                 /\ startRet' = Nil => cctx = "done" \/ listen = Nil
                 /\ startRet' = "err" => listen = "err" ]_vars
    /\ [](startRet # "none" => cctx = "done" \/ listen \in Returns)

\* Listen returned nil and Start returned nil, with the context not cancelled.
C18_Witness ==
    /\ startRet = Nil /\ listen = Nil /\ cctx = "live" /\ ~topDone
    /\ run = "select"

\* C19: Coordinator.Stop first cancels the derived context, then calls Stop
\* on the entries of c.modules in registration order, one call per step of
\* its loop and only while no earlier Stop call is outstanding; it returns
\* only after the last of these calls has returned, and as long as the calls
\* return the loop reaches every module.
C19_StopCancelsThenStopsInOrder ==
    /\ [][ (spc = "cancel" /\ spc' # spc)
              => spc' = "loop" /\ stopIdx' = 1 /\ cctx' # "live" ]_vars
    /\ [][ (\E n \in 1..Len(calls') : calls'[n].op = "Stop")
              => /\ spc = "loop" /\ cctx # "live"
                 /\ stopBusy = 0
                 /\ stopIdx \in 1..Len(modules)
                 /\ calls' = <<CallOf(modules[stopIdx], "Stop", 0, NoEvent, Nil)>>
                 /\ stopIdx' = stopIdx + 1 ]_vars
    /\ [](stopBusy \in {0, 1})
    /\ [](spc = "done" => stopIdx = Len(modules) + 1 /\ stopBusy = 0)
    /\ (spc = "cancel") ~> (stopIdx > Len(modules) \/ stopBusy > 0 \/ ~Alive)
    /\ (spc = "loop" /\ stopBusy = 0)
          ~> (stopIdx > Len(modules) \/ stopBusy > 0 \/ ~Alive)

\* The Stop of the fourth module has been called after the first three
\* returned, with the derived context cancelled.
C19_Witness ==
    /\ spc = "loop" /\ stopIdx = Len(modules) + 1 /\ stopBusy = 1
    /\ Len(modules) = Len(RunRegistrations)
    /\ cctx = "done"
    /\ calls = <<CallOf(modules[Len(modules)], "Stop", 0, NoEvent, Nil)>>

\* The context of the session is cancelled.
SessionCancelled == runCtx = "done"

\* Stop has been called on every module of the session.
AllStopCalled ==
    Len(modules) = Len(RunRegistrations) /\ stopIdx = Len(modules) + 1

C21_LockDiscipline ==
    [][ /\ step'.kind \in MutatingSteps => step'.lock = "exclusive"
        /\ step'.kind \in ReadingSteps \ MutatingSteps
              => step'.lock = "shared" ]_vars

\* A key press was routed to its owner, with c.mu not held.
C21_Witness ==
    /\ step.kind = "KeyPress" /\ step.lock = "none"
    /\ Len(calls) = 1 /\ calls[1].op = "HandleKey"

\* C22: when runWithDevice is called again, the Coordinator and the modules
\* are constructed anew: the list of modules, the failed-module set, the
\* ownership maps, the stored resources and the overlay flag are empty and
\* the github module has no overlay, whatever they were in the session
\* before; and a Coordinator without registrations never has a failed
\* module, an owner or the overlay flag set.
C22_SessionsStartFresh ==
    /\ [][ step'.kind = "NewSession"
              => /\ modules' = <<>> /\ failedModules' = {}
                 /\ \A k \in AllKeys : keyOwners'[k] = Nil
                 /\ \A d \in AllDials : dialOwners'[d] = Nil
                 /\ \A m \in Modules : moduleResources'[m] = NoResources
                 /\ overlayWasActive' = FALSE
                 /\ gh'.overlayType = "OverlayNone" /\ gh'.currentPage = 0
                 /\ Len(calls') = Len(RunRegistrations)
                 /\ \A n \in 1..Len(calls') : calls'[n].op = "New" ]_vars
    /\ [](modules = <<>>
             => /\ failedModules = {} /\ ~overlayWasActive
                /\ \A k \in AllKeys : keyOwners[k] = Nil
                /\ \A d \in AllDials : dialOwners[d] = Nil)

\* A session begins after one in which a module had failed Init and the
\* overlay had served a render.
C22_Witness ==
    /\ step.kind = "NewSession" /\ step.id = MaxFailed /\ step.overlay = "gh"
    /\ failedModules = {} /\ ~overlayWasActive /\ modules = <<>>

\* C23: a press that is followed by a release leaves its recipient waiting in
\* WaitForRelease; the release of a key or dial is delivered only for such a
\* press, after it, to the module that got the press and through the same
\* kind of handler (the owner's or the overlay's), whether or not an overlay
\* is active at the time of the release; and nothing but that release ends
\* the wait.
C23_ReleaseFollowsPress ==
    /\ [][ (step'.kind = "KeyPress" /\ keyH'[step'.id] # NoHandler)
              => /\ keyH[step'.id] = NoHandler
                 /\ Len(calls') = 1 /\ calls'[1].ev = PressEvent
                 /\ keyH'[step'.id].mod = calls'[1].mod
                 /\ (keyH'[step'.id].to = "overlay") = (calls'[1].op = "HandleOverlayKey")
                 /\ (keyH'[step'.id].to = "owner") = (calls'[1].op = "HandleKey") ]_vars
    /\ [][ (step'.kind = "DialPress" /\ dialH'[step'.id] # NoHandler)
              => /\ dialH[step'.id] = NoHandler
                 /\ Len(calls') = 1 /\ calls'[1].ev.Type = "DialPress"
                 /\ dialH'[step'.id].mod = calls'[1].mod
                 /\ (dialH'[step'.id].to = "overlay") = (calls'[1].op = "HandleOverlayDial")
                 /\ (dialH'[step'.id].to = "owner") = (calls'[1].op = "HandleDial") ]_vars
    /\ [][ step'.kind = "KeyRelease"
              => /\ keyH[step'.id] # NoHandler /\ keyH'[step'.id] = NoHandler
                 /\ Len(calls') = 2 /\ calls'[1].op = "WaitForRelease"
                 /\ calls'[2].mod = keyH[step'.id].mod
                 /\ calls'[2].id = step'.id /\ calls'[2].ev.Pressed = FALSE
                 /\ calls'[2].op = IF keyH[step'.id].to = "overlay"
                                   THEN "HandleOverlayKey" ELSE "HandleKey" ]_vars
    /\ [][ step'.kind = "DialRelease"
              => /\ dialH[step'.id] # NoHandler /\ dialH'[step'.id] = NoHandler
                 /\ Len(calls') = 2 /\ calls'[1].op = "WaitForRelease"
                 /\ calls'[2].mod = dialH[step'.id].mod
                 /\ calls'[2].id = step'.id /\ calls'[2].ev.Type = "DialRelease"
                 /\ calls'[2].op = IF dialH[step'.id].to = "overlay"
                                   THEN "HandleOverlayDial" ELSE "HandleDial" ]_vars
    /\ [][ /\ \A k \in CoordKeys :
                 (keyH[k] # NoHandler /\ keyH'[k] # keyH[k])
                    => step'.kind = "KeyRelease" /\ step'.id = k
           /\ \A d \in CoordDials :
                 (dialH[d] # NoHandler /\ dialH'[d] # dialH[d])
                    => step'.kind = "DialRelease" /\ step'.id = d ]_vars

\* The release of a key whose press went to its owner is delivered to the
\* owner while the overlay is active.
C23_Witness ==
    /\ OverlayOn /\ step.kind = "KeyRelease" /\ step.overlay = Nil
    /\ Len(calls) = 2 /\ calls[2].op = "HandleKey" /\ calls[2].mod = "gh"
    /\ calls[2].ev.Pressed = FALSE

C25_OverlayTickAsksOnlyOverlay ==
    [][ step'.kind \in {"renderKeys", "renderStrip"} /\ (\E m \in Range(Live) : IsProvider(m) /\ OverlayActive(m))
           => /\ Len(calls') = 1
              /\ calls'[1].mod \in OverlayProviders \cap Range(Live)
              /\ OverlayActive(calls'[1].mod)
              /\ calls'[1].op = IF step'.kind = "renderKeys" THEN "RenderOverlayKeys"
                                ELSE "RenderOverlayStrip"
              /\ \A n \in 1..Len(calls') : calls'[n].op \notin {"RenderKeys", "RenderStrip"} ]_vars

\* Both halves of a tick were served by the overlay of github: renderStrip
\* has just called RenderOverlayStrip, after a renderKeys that called
\* RenderOverlayKeys.
C25_Witness ==
    /\ step.kind = "renderStrip" /\ step.overlay = "gh"
    /\ overlayWasActive
    /\ calls = <<CallOf("gh", "RenderOverlayStrip", 0, NoEvent, Nil)>>
    /\ Len(Live) = Cardinality(Modules)

\* C26: a step that scans for an active overlay (the press, rotate and strip
\* handlers, renderKeys, renderStrip) uses an overlay exactly if some
\* non-failed overlay provider reports an active one, and then it uses that
\* of the provider registered first among them, also when several report
\* one; its calls of overlay methods go to that module.  A module in
\* failedModules is never the overlay used.
C26_FirstRegisteredOverlayWins ==
    [][ step'.kind \in ReadingSteps
           => LET on == {n \in 1..Len(modules) :
                           /\ modules[n] \notin failedModules
                           /\ IsProvider(modules[n])
                           /\ OverlayActive(modules[n])}
              IN /\ step'.overlay \notin failedModules
                 /\ IF on = {} THEN step'.overlay = Nil
                    ELSE /\ step'.overlay = modules[CHOOSE n \in on : \A j \in on : n <= j]
                         /\ \E n \in 1..Len(calls') : calls'[n].mod = step'.overlay
                 /\ \A n \in 1..Len(calls') :
                       calls'[n].op \in {"HandleOverlayKey", "HandleOverlayDial",
                                         "HandleOverlayStripTouch",
                                         "RenderOverlayKeys", "RenderOverlayStrip"}
                          => calls'[n].mod = step'.overlay ]_vars

\* homeassistant and github both report an active overlay and neither has
\* failed; a key of github is pressed and the press goes to the overlay of
\* homeassistant, which is registered before github.
C26_Witness ==
    /\ haOverlay = "on" /\ IsOverlayActive(gh, now)
    /\ failedModules = {}
    /\ step.kind = "KeyPress" /\ step.overlay = "ha"
    /\ calls[1].mod = "ha" /\ calls[1].op = "HandleOverlayKey"
    /\ asked = <<"ha">>

\* C27: after any sequence of RegisterModule calls, keyOwners maps each key
\* to the module of the latest registration whose resources list the key,
\* and to nil if no registration lists it; dialOwners does the same for the
\* dials.  (The resources of the n-th registration are the entry of granted
\* for its module at the number of registrations of that module so far.)
C27_LastRegistrantOwns ==
    LET Grant(n) == granted[modules[n]][Count(modules[n], SubSeq(modules, 1, n))]
        Latest(S) == CHOOSE n \in S : \A j \in S : j <= n
        KeyRegs(k) == {n \in 1..Len(modules) : k \in Range(Grant(n).Keys)}
        DialRegs(d) == {n \in 1..Len(modules) : d \in Range(Grant(n).Dials)}
    IN /\ \A k \in AllKeys :
            keyOwners[k] = IF KeyRegs(k) = {} THEN Nil ELSE modules[Latest(KeyRegs(k))]
       /\ \A d \in AllDials :
            dialOwners[d] = IF DialRegs(d) = {} THEN Nil ELSE modules[Latest(DialRegs(d))]

\* nowplaying was registered with keys 5, 6 and dials 1, 2, weather then with
\* the same resources and github last with keys 3, 4: weather owns what
\* nowplaying was granted, and key 1, which nobody listed, has no owner.
C27_Witness ==
    /\ modules = <<"np", "w", "gh">>
    /\ granted["np"] = <<RunRegistrations[1].res>>
    /\ granted["w"] = <<RunRegistrations[1].res>>
    /\ granted["gh"] = <<RunRegistrations[4].res>>
    /\ keyOwners[5] = "w" /\ dialOwners[1] = "w" /\ keyOwners[3] = "gh"
    /\ keyOwners[1] = Nil /\ dialOwners[3] = Nil

\* C28: with no overlay active, the key handler, the dial rotation handler
\* and the dial press handler of a key or dial that has no owner, or whose
\* owner is in failedModules, call nothing (no module handler, no
\* WaitForRelease), leave no handler waiting for a release, and return nil.
C28_UnownedEventsDropped ==
    [][ /\ step'.kind \in {"KeyPress", "DialRotate", "DialPress"}
        /\ ~\E m \in Range(modules) :
               m \notin failedModules /\ IsProvider(m) /\ OverlayActive(m)
        /\ LET owner == IF step'.kind = "KeyPress" THEN keyOwners[step'.id]
                        ELSE dialOwners[step'.id]
           IN owner = Nil \/ owner \in failedModules
        => /\ calls' = <<>>
           /\ hret' = Nil
           /\ keyH' = keyH /\ dialH' = dialH
           /\ step'.overlay = Nil ]_vars

\* Key 1 belongs to homeassistant, whose Init failed, and key 8 to nobody;
\* with no overlay active key 1 was pressed: the handler has returned nil
\* without a call, and no handler waits for a release.
C28_Witness ==
    /\ "ha" \in failedModules /\ keyOwners[1] = "ha" /\ keyOwners[8] = Nil
    /\ ~IsOverlayActive(gh, now)
    /\ step.kind = "KeyPress" /\ step.id = 1 /\ step.overlay = Nil
    /\ calls = <<>> /\ hret = Nil
    /\ \A k \in CoordKeys : keyH[k] = NoHandler

C30_HandlersBeforeListen ==
    /\ [][ (\E n \in 1..Len(calls') : calls'[n].op = "Listen")
              => /\ listen = "none" /\ listen' = "running"
                 /\ inits = modules
                 /\ \A m \in Range(modules) : initRet[m] \in {"ok", "err"}
                 /\ calls'[Len(calls')].op = "Listen"
                 /\ \A n \in 1..(Len(calls') - 1) : calls'[n].op # "Listen"
                 /\ \A k \in AllKeys :
                       \E n \in 1..(Len(calls') - 1) :
                          calls'[n] = CallOf("device", "AddKeyHandler", k, NoEvent, Nil)
                 /\ \A d \in AllDials, op \in {"AddDialRotateHandler", "AddDialSwitchHandler"} :
                       \E n \in 1..(Len(calls') - 1) :
                          calls'[n] = CallOf("device", op, d, NoEvent, Nil)
                 /\ \A op \in {"AddTouchStripTouchHandler", "AddTouchStripSwipeHandler"} :
                       \E n \in 1..(Len(calls') - 1) :
                          calls'[n] = CallOf("device", op, 0, NoEvent, Nil) ]_vars
    /\ [][ listen # "none"
              => \A n \in 1..Len(calls') :
                    calls'[n].op \notin {"AddKeyHandler", "AddDialRotateHandler",
                                         "AddDialSwitchHandler",
                                         "AddTouchStripTouchHandler",
                                         "AddTouchStripSwipeHandler", "Listen"} ]_vars
    /\ [][ step'.kind \in {"KeyPress", "DialRotate", "DialPress", "Strip"}
              => listen = "running" ]_vars
    /\ [](listen = "none" => step.kind \notin {"KeyPress", "DialRotate", "DialPress", "Strip"})

\* Start has registered the eighteen handlers and started Listen, after the
\* Init of the four modules, one of which failed.
C30_Witness ==
    /\ step.kind = "Listen" /\ listen = "running"
    /\ Len(calls) = Cardinality(AllKeys) + 2 * Cardinality(AllDials) + 3
    /\ calls[1] = CallOf("device", "AddKeyHandler", 1, NoEvent, Nil)
    /\ calls[Len(calls)] = CallOf("device", "Listen", 0, NoEvent, Nil)
    /\ inits = <<"np", "w", "ha", "gh">> /\ failedModules = {"ha"}

\* ------------------------------------------------------------------------
\* Properties of the teardown, the acquisition and the wake channel
\* (SpecManager, SpecManagerFair)
\* ------------------------------------------------------------------------
\* C31: runWithDevice starts dev.Close only at the end of its delay, which
\* it enters only from the wait for coord.Stop, when Stop has returned or
\* the wait has timed out, and that wait only from the select on the
\* teardown triggers; while it is in that select, and while it waits for
\* Stop or is in the delay, no Close of the session has been started.
C31_CloseAfterStopAndDelay ==
    /\ [][ closeState' = "running" /\ closeState # "running"
              => /\ pc = "run_delay" /\ pc' = "run_close"
                 /\ stopState \in {"running", "done"}
                 /\ runCancelled
                 /\ lastClosed' = <<dev, "runWithDevice">> ]_vars
    /\ [][ pc' = "run_delay" /\ pc # "run_delay"
              => pc = "run_stop" /\ UNCHANGED closeState ]_vars
    /\ [][ pc' = "run_stop" /\ pc # "run_stop" => pc = "run_select" ]_vars
    /\ [](pc \in {"run_select", "run_stop", "run_delay"}
             => closeState = "none" /\ lastClosed[2] # "runWithDevice")

\* coord.Stop has not returned, the wait for it has timed out, the delay has
\* passed and dev.Close has been started.
C31_Witness ==
    /\ pc = "run_close" /\ closeState = "running"
    /\ stopState = "running" /\ runCancelled
    /\ lastClosed = <<dev, "runWithDevice">>

\* C32: when main, holding a device it has just acquired, finds the
\* top-level context cancelled at its check before the session, it calls
\* Close on that device and returns: no Coordinator is started for the
\* device, in that step or later.  A Coordinator is started only after a
\* check that found the context live.
C32_CancelBeforeSessionCloses ==
    /\ [][ pc = "main_check" /\ ctxDone /\ pc' # pc
              => /\ dev # Nil /\ lastClosed' = <<dev, "main">>
                 /\ pc' = "exited"
                 /\ coord = "none" /\ coord' = "none" ]_vars
    /\ [][ pc = "main_check" /\ ~ctxDone /\ pc' # pc => pc' = "main_drain" ]_vars
    /\ [][ coord' = "running" /\ coord # "running" => pc = "main_sleep" ]_vars
    /\ [][ pc' = "main_drain" /\ pc # "main_drain" => pc = "main_check" /\ ~ctxDone ]_vars
    /\ [](lastClosed[2] = "main" => pc = "exited" /\ coord = "none")

\* The signal came while the device was being acquired: main has closed the
\* device and returned without a session.
C32_Witness ==
    /\ pc = "exited" /\ ctxDone
    /\ lastClosed[1] # Nil /\ lastClosed[2] = "main"
    /\ coord = "none" /\ stopState = "none" /\ closeState = "none"

\* ------------------------------------------------------------------------
\* Properties of the github overlay under concurrent calls (SpecExpiry)
\* ------------------------------------------------------------------------
\* C33: a step of IsOverlayActive that sets overlayType to OverlayNone finds
\* the expiry the module holds at that moment in the past, also when
\* HandleKey or a Dial4 rotation has run since the call began.
C33_ExpiryCheckKeepsLiveOverlay ==
    [][ /\ last'.op = "IsOverlayActive"
        /\ gh.overlayType # "OverlayNone" /\ gh'.overlayType = "OverlayNone"
        => now > gh.overlayExpiry ]_vars

\* An IsOverlayActive call found the overlay expired and has released the
\* read lock; before it took the write lock a key press activated the
\* overlay again, whose expiry is now in the future.
C33_Witness ==
    /\ expiring > 0
    /\ last.op = "HandleKey" /\ last.ev = "Press"
    /\ gh.overlayType # "OverlayNone" /\ gh.overlayExpiry = now + OverlayDuration

C35_NoPushAfterCloseStarted ==
    [][(step'.kind \in {"renderKeys", "renderStrip"} /\ calls' # <<>>)
          => devState = "open"]_vars

\* The render loop has pushed key images to a device that is being closed,
\* Coordinator.Stop not having returned.
C35_Witness ==
    /\ devState = "closing" /\ spc \in {"cancel", "loop"}
    /\ step.kind = "renderKeys" /\ calls # <<>>
    /\ \E n \in 1..Len(calls) : calls[n].op \in {"RenderKeys", "RenderOverlayKeys"}

\* C36: the single-flight guard is set exactly while an enumeration worker
\* is running: at most one worker runs, the guard is clear as soon as a
\* worker has returned (with a device, with an error, or late after the
\* timeout of its call), and a call made when no worker runs starts one.
C36_GuardSetWhileWorkerRuns ==
    [][/\ enumInFlight' <=> (WorkersRunning' # {})
       /\ Cardinality(WorkersRunning') <= 1
       /\ \A k \in 1..MaxEnum :
             (enum[k].worker = "running" /\ enum'[k].worker # "running")
                => ~enumInFlight'
       /\ (pc \in CallSites /\ pc' # pc /\ WorkersRunning = {})
             => (pc' = "try_wait" /\ enumInFlight')]_vars

\* An enumeration that timed out has returned late, its result not yet
\* taken by the cleanup goroutine, and a later call has started a worker.
C36_Witness ==
    /\ pc = "try_wait" /\ cur # 0 /\ enum[cur].worker = "running" /\ enumInFlight
    /\ \E k \in 1..MaxEnum :
          /\ k # cur /\ enum[k].reader = "cleanup"
          /\ enum[k].worker = "returned" /\ enum[k].ch \in {"latedev", "err"}

\* ------------------------------------------------------------------------
\* Properties of the press handlers and of a render tick (SpecCoordinator)
\* ------------------------------------------------------------------------
\* C37: when the press call of a key or dial press returns an error, the
\* handler returns that error to the device layer at once: it makes no
\* other call, WaitForRelease included, and does not wait for the release.
\* A release sub-event is delivered only by a handler that waits, and a
\* handler waits only after a press call that returned nil.
C37_PressErrorEndsDelivery ==
    /\ [][ (/\ step'.kind \in {"KeyPress", "DialPress"}
            /\ calls' # <<>> /\ calls'[1].ret # Nil)
              => /\ hret' = calls'[1].ret
                 /\ Len(calls') = 1
                 /\ calls'[1].op \in {"HandleKey", "HandleDial"}
                 /\ keyH' = keyH /\ dialH' = dialH ]_vars
    /\ [][ step'.kind = "KeyRelease" => keyH[step'.id] # NoHandler ]_vars
    /\ [][ step'.kind = "DialRelease" => dialH[step'.id] # NoHandler ]_vars
    /\ [][ \A k \in CoordKeys :
              (keyH[k] = NoHandler /\ keyH'[k] # NoHandler)
                 => /\ step' = StepOf("KeyPress", k, step'.overlay)
                    /\ calls'[1].ret = Nil /\ hret' = "none" ]_vars
    /\ [][ \A d \in CoordDials :
              (dialH[d] = NoHandler /\ dialH'[d] # NoHandler)
                 => /\ step' = StepOf("DialPress", d, step'.overlay)
                    /\ calls'[1].ret = Nil /\ hret' = "none" ]_vars

\* The press call of a dial press has returned an error, which the handler
\* returned; no handler waits for a release.
C37_Witness ==
    /\ step.kind = "DialPress" /\ hret = "err"
    /\ calls = <<CallOf(dialOwners[step.id], "HandleDial", step.id,
                        DialEvent("DialPress", 0, 0), "err")>>
    /\ \A d \in CoordDials : dialH[d] = NoHandler
    /\ \A k \in CoordKeys : keyH[k] = NoHandler

\* C38: within one render tick the key images and the strip image come from
\* the same source: the renderStrip of a tick uses the overlay exactly if
\* the renderKeys of that tick did, whatever happened in between.
C38_TickFromOneSource ==
    [][ step'.kind = "renderStrip"
           => (step'.overlay # Nil) = overlayWasActive ]_vars

\* In one tick renderKeys asked the overlay for the keys and renderStrip,
\* finding no overlay any more, asked the modules for the strip.
C38_Witness ==
    /\ step.kind = "renderStrip" /\ step.overlay = Nil
    /\ overlayWasActive
    /\ calls # <<>>
    /\ \A n \in 1..Len(calls) : calls[n].op = "RenderStrip"

C40_WakeForwardingNeverBlocks ==
    /\ wakeCh \in {0, 1}
    /\ pc # "exited"
          => /\ ENABLED Wake
             /\ wakeCh = 1 => ENABLED (Wake /\ UNCHANGED vars)
             /\ wakeCh = 0 => ~ENABLED (Wake /\ UNCHANGED vars)

\* A wake signal is pending while the manager waits for an enumeration, not
\* receiving from wakeCh.
C40_Witness ==
    /\ wakeCh = 1 /\ wakeAt = "before"
    /\ pc = "try_wait" /\ enumInFlight

=============================================================================
